---- MODULE Spec2Model ----
(***************************************************************************)
(* A model of cm/services/data/volume.py: the Volume object (one cloud     *)
(* block-storage volume backing one file system), the cloud middleware it  *)
(* talks to and the local operating system's device namespace.             *)
(*                                                                         *)
(* Every method of Volume is a procedure on a call stack; one action is    *)
(* one step of the method at the top of the stack (at most one read of     *)
(* the status property, one remote call or one OS command).  The cloud     *)
(* and the OS move by actions of their own, interleaved with the steps.    *)
(***************************************************************************)
EXTENDS Integers, Sequences, FiniteSets, TLC

(***************************************************************************)
(* Bounds of the model.                                                    *)
(***************************************************************************)
\* Number of volume ids the cloud can hand out (ids 1..MaxVols).
MaxVols == 2
\* Remote-call counters saturate at this value.
CallCap == 3
\* Things that go wrong on their own account in one behaviour: a call the
\* API fails although it could have served it, a volume that ends in an
\* error status, a device attached by someone else.
MaxFaults == 1
\* Public calls made on an object that takes any calls (see Menu).
MaxOps == 2
\* Calls made on an object that is watched (see Menu).
MaxReads == 2

(***************************************************************************)
(* Program constants.                                                      *)
(***************************************************************************)
MIN_TIME_BETWEEN_STATUS_CHECKS == 2
\* wait_for_status: number of checks a finite timeout is divided into.
WaitChecks == 10
\* wait_for_status: poll interval (seconds) of an unlimited wait.
WaitForeverSleep == 5
\* detach: the two timeouts; attach: the timeout after a failed candidate.
DetachTimeout1 == 240
DetachTimeout2 == 60
AttachRetryTimeout == 60
\* attach: settle delay before the OS devices are listed again.
AttachSettle == 10
\* mount: iterations and back-off; unmount: iterations.
MountTries == 30
MountSleep == 2
UnmountTries == 10

(***************************************************************************)
(* Values.                                                                 *)
(***************************************************************************)
NONE == "NONE"
CREATING == "CREATING"
AVAILABLE == "AVAILABLE"
ATTACHING == "ATTACHING"
ATTACHED == "ATTACHED"
IN_USE == "IN_USE"
DELETING == "DELETING"
Status == {NONE, CREATING, AVAILABLE, ATTACHING, ATTACHED, IN_USE, DELETING}

\* The tokens the module-level table volume_status_map knows.
KnownTokens == {"creating", "available", "in-use", "attaching", "attached", "deleting"}

volume_status_map(tok) ==
    CASE tok = "creating" -> CREATING
      [] tok = "available" -> AVAILABLE
      [] tok = "in-use" -> IN_USE
      [] tok = "attaching" -> ATTACHING
      [] tok = "attached" -> ATTACHED
      [] tok = "deleting" -> DELETING
      [] OTHER -> "None"

\* No volume bound (self.volume is None); volume ids are 1..MaxVols.
NoVol == 0
VolIds == 1..MaxVols
\* The id a caller may pass that names no volume of the cloud.
BogusId == MaxVols + 1

\* A device path: base and trailing identifier (a = 0, b = 1, ...; for
\* /dev/nvme<N>n1 the identifier is N).
Dev(b, i) == [base |-> b, id |-> i]
NoDev == Dev("None", 0)
SD == "/dev/sd"
XVD == "/dev/xvd"
VD == "/dev/vd"
NVME == "/dev/nvme"
LetterF == 5
\* The last letter a device name ends with (glob pattern [a-z]).
LetterZ == 25

\* Age of the cached status: never polled, or whole seconds since the last
\* successful poll, capped just above the throttle interval.
Never == -1
AgeCap == MIN_TIME_BETWEEN_STATUS_CHECKS + 1
Older(a, secs) == IF a = Never THEN Never
                  ELSE IF a + secs > AgeCap THEN AgeCap ELSE a + secs

\* File system states (service_states) the model distinguishes.
FsStates == {"UNSTARTED", "CONFIGURING", "RUNNING", "SHUTTING_DOWN", "ERROR"}

(***************************************************************************)
(* State.                                                                  *)
(***************************************************************************)
VARIABLES
    \* --- the Volume object
    volume,             \* self.volume: NoVol or the id of the bound volume
    device,             \* self.device
    size,               \* self.size
    from_snapshot_id,   \* self.from_snapshot_id: "None" or a snapshot id
    from_archive,       \* self.from_archive is set
    static,             \* self.static
    snapshot,           \* self.snapshot: "None" or the snapshot object's id
    status_cache,       \* self._status
    age,                \* now - self._last_status_check (see Older)
    \* --- the owning file system
    fs,                 \* [state, data (GALAXY_DATA in svc_roles), kind, mounted, shared]
    \* --- the cloud and the operating system
    remote,             \* volume id -> the cloud's record of it
    osdevs,             \* the block devices present under /dev
    plat,               \* [cloud_type, nvme]: the configuration of the instance
    scen,               \* what the caller does with the object (see Menu)
    \* --- control
    stack,              \* call stack, the running method first
    ret,                \* value returned by the method that returned last
    \* --- history of the running (or last) public call
    calls,              \* remote calls issued since the public call began
    cur,                \* the public call, its arguments and what it met
    faults              \* transient failures of the cloud API so far

objvars == <<volume, device, size, from_snapshot_id, from_archive, static,
             snapshot, status_cache, age>>
envvars == <<remote, osdevs, plat, scen>>
vars == <<volume, device, size, from_snapshot_id, from_archive, static,
          snapshot, status_cache, age, fs, remote, osdevs, plat, scen, stack,
          ret, calls, cur, faults>>

(***************************************************************************)
(* The cloud's record of a volume.                                         *)
(*   st     first token of the status string; "absent" (id never handed   *)
(*          out) or "gone" (deleted): describing such an id fails          *)
(*   att    attachment state: "none", "attaching", "attached", "detaching" *)
(*   inst   instance of the attachment: "none", "this", "other"            *)
(*   zoneok the volume lives in this instance's availability zone          *)
(*   rdev   the device the attachment was requested as (attach_data.device)*)
(*   osdev  the device the OS of this instance shows for it                *)
(***************************************************************************)
RVol(st, att, inst, zoneok, rdev, snap, sz) ==
    [st |-> st, att |-> att, inst |-> inst, zoneok |-> zoneok, rdev |-> rdev,
     osdev |-> NoDev, snap |-> snap, size |-> sz]
AbsentVol == RVol("absent", "none", "none", TRUE, NoDev, "None", 0)
Exists(r) == r.st \notin {"absent", "gone"}
\* Size of the one snapshot the cloud holds, "s1".
SnapSize == 1

(***************************************************************************)
(* Remote-call counters and return values.                                 *)
(***************************************************************************)
CallKinds == {"describe", "get_all_volumes", "get_all_snapshots", "get_snapshot",
              "get_snapshot_info", "create_volume", "add_tag", "attach",
              "detach", "delete_volume", "create_snapshot"}
NoCalls == [c \in CallKinds |-> 0]
\* Status polls are many: of them a call keeps only whether one was made.
CapOf(kind) == IF kind = "describe" THEN 1 ELSE CallCap
BumpBy(cs, kind, n) ==
    [cs EXCEPT ![kind] = IF @ + n > CapOf(kind) THEN CapOf(kind) ELSE @ + n]
Bump(cs, kind) == BumpBy(cs, kind, 1)
AnyCall(cs) == \E c \in CallKinds : cs[c] > 0

RetBool(b) == [t |-> "bool", b |-> b, d |-> NoDev, s |-> NONE]
RetNone == [t |-> "None", b |-> FALSE, d |-> NoDev, s |-> NONE]
RetDev(d) == IF d = NoDev THEN RetNone
             ELSE [t |-> "dev", b |-> FALSE, d |-> d, s |-> NONE]
RetStatus(v) == [t |-> "status", b |-> FALSE, d |-> NoDev, s |-> v]
RetRaise(e) == [t |-> e, b |-> FALSE, d |-> NoDev, s |-> NONE]
Raised(r) == r.t \in {"TypeError", "AttributeError"}
Truthy(r) == (r.t = "bool" /\ r.b) \/ r.t = "dev"

(***************************************************************************)
(* Device naming (pure).                                                   *)
(***************************************************************************)
\* Volume._get_device_list: the devices the two glob patterns match.
DeviceList(devs, p) ==
    IF p.cloud_type = "ec2" /\ p.nvme
    THEN {d \in devs : d.base = NVME /\ d.id \in {0, 1, 2, 6}}
    ELSE {d \in devs : d.base \in {SD, XVD, VD}}

\* Volume._increment_device_id
IncrementDeviceId(d, p) ==
    LET ec2 == p.cloud_type = "ec2"
        base == IF ec2 /\ d.base = XVD THEN SD ELSE d.base
        letter == IF ec2 /\ d.id < LetterF THEN LetterF - 1 ELSE d.id
    IN  Dev(base, letter + 1)

MaxId(ds) == CHOOSE d \in ds : \A e \in ds : e.id <= d.id

\* Volume._get_likely_next_devices: the candidates in order; <<>> stands
\* for the None the method returns when it recognises no device.
LikelyNextDevices(devs, p) ==
    LET nvme == {d \in devs : d.base = NVME}
        vds == {d \in devs : d.base = VD}
        xvds == {d \in devs : d.base = XVD}
        sds == {d \in devs : d.base = SD}
    IN  IF nvme # {} THEN <<Dev(SD, LetterF + Cardinality(nvme) - 1)>>
        ELSE IF vds # {} THEN <<IncrementDeviceId(MaxId(vds), p)>>
        ELSE IF xvds # {} THEN <<IncrementDeviceId(MaxId(xvds), p)>>
        ELSE IF sds # {} THEN <<IncrementDeviceId(MaxId(sds), p), Dev(VD, 0), Dev(XVD, 0)>>
        ELSE <<>>

(***************************************************************************)
(* The call stack.                                                         *)
(***************************************************************************)
Frame(op, pc) ==
    [op |-> op, pc |-> pc, tgt |-> NONE, tmo |-> 0, k |-> 0, cands |-> <<>>,
     pre |-> {}, ad |-> NoDev, dv |-> FALSE, dt |-> FALSE, vid |-> NoVol]
WaitFrame(tgt, tmo) == [Frame("wait_for_status", "entry") EXCEPT !.tgt = tgt, !.tmo = tmo]

Idle == stack = <<>>
top == Head(stack)
At(op, pc) == stack # <<>> /\ top.op = op /\ top.pc = pc
GotoF(f) == stack' = <<f>> \o Tail(stack)
Goto(pc) == GotoF([top EXCEPT !.pc = pc])
CallF(f, back) == stack' = <<f, back>> \o Tail(stack)
Call(f, pc) == CallF(f, [top EXCEPT !.pc = pc])
Return(r) == stack' = Tail(stack) /\ ret' = r
Raise(e) == stack' = <<>> /\ ret' = RetRaise(e)

\* What the history keeps of the latest create() of the public call: the
\* fields at its entry (0) and at its return (1), the status its check at
\* line 345 read, and its result.
NoCr == [began |-> FALSE, done |-> FALSE, snap0 |-> "None", st |-> "unread",
         vol0 |-> NoVol, size0 |-> 0, cache0 |-> NONE, calls0 |-> NoCalls,
         vol1 |-> NoVol, size1 |-> 0, cache1 |-> NONE, calls1 |-> NoCalls,
         r |-> RetNone]

\* What the history keeps of the latest attach() of the public call: the
\* device field at its entry and return, its result, the file system state
\* at its return, what the resolution of the new devices met, the status
\* its first read found (st0, see AtEntry) and the step it returned from.
NoAr == [began |-> FALSE, done |-> FALSE, dev0 |-> NoDev, dev1 |-> NoDev,
         r |-> RetNone, fs1 |-> "UNSTARTED", zm |-> FALSE,
         req |-> NoDev, new |-> {}, resolved |-> FALSE, st0 |-> "unread",
         at |-> "none"]

\* What the history keeps of a status read the caller makes itself: how it
\* was answered, the value, and the binding, the cached status and its age
\* before (0) and after (1) the read.
NoRd == [done |-> FALSE, polled |-> FALSE, failed |-> FALSE, v |-> NONE,
         vol1 |-> NoVol, cache0 |-> NONE, age0 |-> Never, cache1 |-> NONE,
         age1 |-> Never]

\* What the history keeps of a wait_for_status the caller makes itself: its
\* arguments, the status it read last (at entry or in a loop test), the
\* number of loop tests that read the status, and its result.
NoW == [tgt |-> NONE, tmo |-> 0, v |-> "unread", n |-> 0, done |-> FALSE,
        r |-> FALSE]

\* What the history keeps of the public call: the method and its arguments,
\* the fields and the attachment of the bound volume at its entry, what
\* happened in it (ev), how many calls were made before it (n), how often
\* the sharing callback ran for its mount (sh).
NewCur(op) == [op |-> op, dv |-> FALSE, dt |-> FALSE, vol0 |-> volume,
               dev0 |-> device, static0 |-> static,
               att0 |-> IF volume = NoVol THEN "none" ELSE remote[volume].att,
               ev |-> {}, n |-> 0, cr |-> NoCr, ar |-> NoAr, rd |-> NoRd,
               w |-> NoW, sh |-> 0]
Note(e) == cur' = [cur EXCEPT !.ev = @ \cup {e}]
Notes(es) == cur' = [cur EXCEPT !.ev = @ \cup es]

(***************************************************************************)
(* Volume.status: the outcomes of one read of the property.                *)
(*   v the value returned; cache, age the fields afterwards; polled        *)
(*   whether volume.update() was called, failed whether it raised          *)
(*   EC2ResponseError, fault whether that failure was the API's own.       *)
(***************************************************************************)
MapStatus(r) ==
    LET s0 == volume_status_map(r.st)
        s1 == IF s0 = IN_USE /\ r.att = "attached" THEN ATTACHED ELSE s0
    IN  IF s1 = "None" THEN NONE ELSE s1

Outcome(v, c, a, polled, failed, fault) ==
    [v |-> v, cache |-> c, age |-> a, polled |-> polled, failed |-> failed,
     fault |-> fault]

\* What goes wrong on its own account (a call the API could have served
\* fails, a volume ends in an error status, a foreign device shows up) is
\* counted: MaxFaults such events in all.
MayFault == faults < MaxFaults
Fault == MayFault /\ faults' = faults + 1
NoFault == faults' = faults

\* A slip: the cached status expires when its age reaches the interval.
CacheIsFresh_younger == age # Never /\ age < MIN_TIME_BETWEEN_STATUS_CHECKS

\* line 254
CacheIsFresh == age # Never /\ age <= MIN_TIME_BETWEEN_STATUS_CHECKS

\* lines 251-253: no volume object
UnboundOutcome_polls == Outcome(NONE, status_cache, age, TRUE, FALSE, FALSE)

UnboundOutcome == Outcome(NONE, status_cache, age, FALSE, FALSE, FALSE)

\* lines 271-274: volume.update() raised EC2ResponseError
FailedPoll_cached(fault) == Outcome(NONE, NONE, 0, TRUE, TRUE, fault)

FailedPoll(fault) == Outcome(NONE, status_cache, age, TRUE, TRUE, fault)

\* lines 257-270: volume.update() answered
AnsweredPoll(r) == Outcome(MapStatus(r), MapStatus(r), 0, TRUE, FALSE, FALSE)

StatusOutcomes ==
    IF volume = NoVol THEN {UnboundOutcome}
    ELSE IF CacheIsFresh
    THEN {Outcome(status_cache, status_cache, age, FALSE, FALSE, FALSE)}
    ELSE IF ~Exists(remote[volume]) THEN {FailedPoll(FALSE)}
    ELSE {AnsweredPoll(remote[volume])}
         \cup (IF MayFault THEN {FailedPoll(TRUE)} ELSE {})

\* A step that reads self.status once with outcome o and then sleeps secs.
ReadStatus(o, secs) ==
    /\ status_cache' = o.cache
    /\ age' = Older(o.age, secs)
    /\ calls' = IF o.polled THEN Bump(calls, "describe") ELSE calls
    /\ faults' = IF o.fault THEN faults + 1 ELSE faults

ident == <<volume, device, size, from_snapshot_id, from_archive, static, snapshot>>
cache == <<status_cache, age>>

\* The caller reads the property (lines 246-275).
status_read ==
    /\ At("status", "entry")
    /\ UNCHANGED <<ident, fs, envvars>>
    /\ \E o \in StatusOutcomes :
          /\ ReadStatus(o, 0)
          /\ Return(RetStatus(o.v))
          /\ cur' = [cur EXCEPT !.rd = [done |-> TRUE, polled |-> o.polled,
                                        failed |-> o.failed, v |-> o.v,
                                        vol1 |-> volume', cache0 |-> status_cache,
                                        age0 |-> age, cache1 |-> status_cache',
                                        age1 |-> age']]

(***************************************************************************)
(* Volume.create (lines 318-380).                                          *)
(***************************************************************************)
\* The history's record of a create() that returns r in this step.
CrDone(c, r) == [c EXCEPT !.cr.done = TRUE, !.cr.r = r, !.cr.vol1 = volume',
                          !.cr.size1 = size', !.cr.cache1 = status_cache',
                          !.cr.calls1 = calls']

\* A slip: a negation lost.
NothingToCreateFrom_archive == size = 0 /\ from_snapshot_id = "None" /\ from_archive

\* line 328: nothing to create from
NothingToCreateFrom == size = 0 /\ from_snapshot_id = "None" /\ ~from_archive

create_entry ==
    /\ At("create", "entry")
    /\ UNCHANGED <<ident, cache, fs, envvars, calls, faults>>
    /\ LET c == [cur EXCEPT !.cr = [NoCr EXCEPT !.began = TRUE,
                     !.snap0 = from_snapshot_id,
                     !.vol0 = volume, !.size0 = size, !.cache0 = status_cache,
                     !.calls0 = calls]]
       IN  IF NothingToCreateFrom
           THEN /\ Return(RetBool(FALSE))
                /\ cur' = CrDone(c, RetBool(FALSE))
           ELSE /\ Goto(IF from_snapshot_id # "None" /\ volume = NoVol
                        THEN "snap" ELSE "status")
                /\ ret' = ret
                /\ cur' = c

\* lines 333-343: fetch the snapshot, take its size when none is given
create_snap ==
    /\ At("create", "snap")
    /\ UNCHANGED <<volume, device, from_snapshot_id, from_archive, static,
                   cache, fs, envvars>>
    /\ \/ /\ calls' = Bump(calls, "get_snapshot")      \* get_snapshot returns None
          /\ Fault
          /\ UNCHANGED <<size, snapshot>>
          /\ Return(RetBool(FALSE))
          /\ cur' = CrDone(cur, RetBool(FALSE))
       \/ /\ snapshot' = from_snapshot_id
          /\ NoFault
          /\ IF size = 0
             THEN /\ size' = SnapSize
                  /\ calls' = Bump(Bump(calls, "get_snapshot"), "get_snapshot_info")
             ELSE /\ size' = size
                  /\ calls' = Bump(calls, "get_snapshot")
          /\ Goto("status")
          /\ UNCHANGED <<ret, cur>>

\* A slip: the status is read and not looked at.
MayCreate_whatever(st) == TRUE

\* line 345: create only if the status is NONE
MayCreate(st) == st = NONE

create_status ==
    /\ At("create", "status")
    /\ UNCHANGED <<ident, fs, envvars, ret>>
    /\ \E o \in StatusOutcomes :
          /\ ReadStatus(o, 0)
          /\ Goto(IF MayCreate(o.v) THEN "make" ELSE "reject")
          /\ cur' = [cur EXCEPT !.cr.st = o.v]

\* lines 364-367: the volume exists; the log line reads the status again
create_reject ==
    /\ At("create", "reject")
    /\ UNCHANGED <<ident, fs, envvars>>
    /\ \E o \in StatusOutcomes :
          /\ ReadStatus(o, 0)
          /\ Return(RetBool(FALSE))
          /\ cur' = CrDone(cur, RetBool(FALSE))

\* lines 350-363: the remote create; self.volume takes whatever it returns
create_make ==
    /\ At("create", "make")
    /\ UNCHANGED <<device, from_snapshot_id, from_archive, static, snapshot,
                   cache, fs, osdevs, plat, scen>>
    /\ calls' = Bump(calls, "create_volume")
    /\ \/ /\ volume' = NoVol                            \* create_volume returns None
          /\ IF \E v \in VolIds : remote[v].st = "absent" THEN Fault ELSE NoFault
          /\ UNCHANGED <<size, remote>>
          /\ Return(RetBool(FALSE))
          /\ cur' = CrDone(cur, RetBool(FALSE))
       \/ \E v \in VolIds :
          \E sz \in {size} \cup (IF from_snapshot_id # "None" THEN {0} ELSE {}) :
             /\ remote[v].st = "absent"
             /\ \A w \in VolIds : remote[w].st = "absent" => v <= w
             /\ remote' = [remote EXCEPT ![v] =
                              RVol("creating", "none", "none", TRUE, NoDev,
                                   from_snapshot_id, sz)]
             /\ volume' = v
             /\ size' = sz
             /\ NoFault
             /\ Goto("tag")
             /\ UNCHANGED <<ret, cur>>

\* lines 371-380: tag the volume
create_tag ==
    /\ At("create", "tag")
    /\ UNCHANGED <<ident, cache, fs, envvars>>
    /\ calls' = BumpBy(calls, "add_tag", 4)
    /\ NoFault
    /\ Return(RetBool(TRUE))
    /\ cur' = CrDone(cur, RetBool(TRUE))

(***************************************************************************)
(* Volume.wait_for_status (lines 276-316).  The loop of a finite timeout   *)
(* runs while time.time() <= end_time (line 298), and each sleep lasts at  *)
(* least wait_time = timeout / 10.  The frame's k is a lower bound of the   *)
(* time since entry in units of wait_time; WaitChecks + 1 stands for a     *)
(* time past the deadline.  How far a sleep and the poll before it take k  *)
(* depends on how long the poll took.                                      *)
(***************************************************************************)
Forever == -1
WaitTime(tmo) == IF tmo = Forever THEN WaitForeverSleep ELSE tmo \div WaitChecks

\* line 298: the loop test
InTime(tmo, k) == tmo = Forever \/ k <= WaitChecks

\* The calls whose duration is followed sleep by sleep: those on a watched
\* object and the single call of detach.  Inside any other call k keeps only
\* what the loop test reads of it: 0 while the deadline is ahead,
\* WaitChecks + 1 once it has passed.
Timed == scen = "watch" \/ (scen = "one" /\ cur.op = "detach")

\* line 313: where the sleep may leave k
AfterSleep_no_time(tmo, k) ==
    IF tmo = Forever THEN {0}
    ELSE IF Timed THEN k..(WaitChecks + 1) ELSE {0, WaitChecks + 1}

AfterSleep(tmo, k) ==
    IF tmo = Forever THEN {0}
    ELSE IF Timed THEN (k + 1)..(WaitChecks + 1) ELSE {0, WaitChecks + 1}

\* lines 299-306: what the loop does with the status v it read
WaitVerdict_gives_up(v, tgt, vol) ==
    IF v = tgt THEN "True" ELSE IF vol = NoVol \/ v = CREATING THEN "False" ELSE "sleep"

WaitVerdict(v, tgt, vol) ==
    IF v = tgt THEN "True" ELSE IF vol = NoVol THEN "False" ELSE "sleep"

\* The history of a wait the caller makes itself: the status read, one more
\* loop test if the read was one, the result if the wait returns.
Waited(c, v, test, returns, r) ==
    IF c.op # "wait_for_status" THEN c
    ELSE [c EXCEPT !.w.v = v,
                   !.w.n = IF test /\ @ <= WaitChecks + 1 THEN @ + 1 ELSE @,
                   !.w.done = returns, !.w.r = r]

\* line 283
wait_entry ==
    /\ At("wait_for_status", "entry")
    /\ UNCHANGED <<ident, fs, envvars>>
    /\ \E o \in StatusOutcomes :
          /\ ReadStatus(o, 0)
          /\ cur' = Waited(cur, o.v, FALSE, o.v = NONE, FALSE)
          /\ IF o.v = NONE
             THEN Return(RetBool(FALSE))
             ELSE Goto("loop") /\ ret' = ret

\* lines 298-306
wait_check ==
    /\ At("wait_for_status", "loop")
    /\ InTime(top.tmo, top.k)
    /\ UNCHANGED <<ident, fs, envvars>>
    /\ \E o \in StatusOutcomes :
       LET verdict == WaitVerdict(o.v, top.tgt, volume) IN
          /\ ReadStatus(o, 0)
          /\ cur' = Waited(cur, o.v, TRUE, verdict # "sleep", verdict = "True")
          /\ IF verdict = "sleep"
             THEN Goto("sleep") /\ ret' = ret
             ELSE Return(RetBool(verdict = "True"))

\* lines 308-313: the log line reads the status; then the sleep
wait_sleep ==
    /\ At("wait_for_status", "sleep")
    /\ UNCHANGED <<ident, fs, envvars, cur, ret>>
    /\ \E o \in StatusOutcomes :
          /\ ReadStatus(o, WaitTime(top.tmo))
          /\ \E k \in AfterSleep(top.tmo, top.k) :
                GotoF([top EXCEPT !.pc = "loop", !.k = k])

\* lines 314-316: out of time
wait_timeout ==
    /\ At("wait_for_status", "loop")
    /\ ~InTime(top.tmo, top.k)
    /\ cur' = Waited(cur, cur.w.v, FALSE, TRUE, FALSE)
    /\ UNCHANGED <<ident, fs, envvars>>
    /\ \E o \in StatusOutcomes :
          /\ ReadStatus(o, 0)
          /\ Return(RetBool(FALSE))

(***************************************************************************)
(* Volume.delete (lines 382-393).  After a successful remote delete the    *)
(* method clears self.volume and then assigns to volume_id, a property     *)
(* without a setter (lines 225-233): the assignment raises AttributeError. *)
(***************************************************************************)
\* The cloud deletes a volume that is not attached.
CanDelete(v) == Exists(remote[v]) /\ remote[v].att = "none"

delete_entry ==
    /\ At("delete", "entry")
    /\ UNCHANGED <<device, size, from_snapshot_id, from_archive, static,
                   snapshot, cache, fs, osdevs, plat, scen, cur>>
    /\ IF volume = NoVol
       THEN /\ Return(RetBool(FALSE))
            /\ UNCHANGED <<volume, remote, calls, faults>>
       ELSE /\ calls' = Bump(calls, "delete_volume")
            /\ \/ /\ Return(RetBool(FALSE))              \* delete_volume returns False
                  /\ IF CanDelete(volume) THEN Fault ELSE NoFault
                  /\ UNCHANGED <<volume, remote>>
               \/ /\ CanDelete(volume)
                  /\ NoFault
                  /\ remote' = [remote EXCEPT ![volume].st = "deleting"]
                  /\ volume' = NoVol
                  /\ Raise("AttributeError")

(***************************************************************************)
(* Volume.update (lines 162-223): bind the object to the volume vid.       *)
(***************************************************************************)
\* lines 193-223: the device the OS shows for an attachment requested as ad
VisibleDevice(ad, devs, old) ==
    IF ad \in devs THEN ad
    ELSE IF ad # NoDev
         THEN (IF Dev(XVD, ad.id) \in devs THEN Dev(XVD, ad.id) ELSE NoDev)
         ELSE old

update_entry ==
    /\ At("update", "entry")
    /\ UNCHANGED <<from_archive, static, snapshot, cache, fs, envvars, cur>>
    /\ calls' = Bump(calls, "get_all_volumes")
    /\ NoFault
    /\ Return(RetNone)
    /\ LET vid == top.vid
           found == vid \in VolIds /\ Exists(remote[vid])
       IN  IF ~found \/ (remote[vid].att = "attached" /\ remote[vid].inst # "this")
           THEN /\ volume' = NoVol
                /\ device' = NoDev
                /\ UNCHANGED <<size, from_snapshot_id>>
           ELSE /\ volume' = vid
                /\ size' = remote[vid].size
                /\ from_snapshot_id' = remote[vid].snap
                /\ device' = VisibleDevice(remote[vid].rdev, osdevs, device)

(***************************************************************************)
(* Volume.detach (lines 592-622).                                          *)
(***************************************************************************)
\* The cloud accepts a detach of an attachment that is there.
CanDetach(v) ==
    Exists(remote[v]) /\ remote[v].att \in {"attaching", "attached", "detaching"}
CloudDetach(v) ==
    /\ CanDetach(v)
    /\ remote' = [remote EXCEPT ![v].att = "detaching"]

\* line 606: detach once more
DetachAgain_always(vol, v) == vol # NoVol

DetachAgain(vol, v) == vol # NoVol /\ v # AVAILABLE

\* line 597, first read: self.status == ATTACHED
detach_entry ==
    /\ At("detach", "entry")
    /\ UNCHANGED <<ident, fs, envvars, ret>>
    /\ \E o \in StatusOutcomes :
          /\ ReadStatus(o, 0)
          /\ Goto(IF o.v = ATTACHED
                  THEN (IF volume # NoVol THEN "call" ELSE "not")
                  ELSE "entry2")
          /\ Notes(IF o.v = ATTACHED THEN {"attached_at_entry"} ELSE {})

\* line 597, second read: self.status == IN_USE
detach_entry2 ==
    /\ At("detach", "entry2")
    /\ UNCHANGED <<ident, fs, envvars, ret>>
    /\ \E o \in StatusOutcomes :
          /\ ReadStatus(o, 0)
          /\ Goto(IF o.v = IN_USE /\ volume # NoVol THEN "call" ELSE "not")
          /\ Notes(IF o.v = IN_USE THEN {"attached_at_entry"} ELSE {})

\* lines 618-621: not attached; the log line reads the status
detach_not ==
    /\ At("detach", "not")
    /\ UNCHANGED <<ident, fs, envvars, cur>>
    /\ \E o \in StatusOutcomes :
          /\ ReadStatus(o, 0)
          /\ Return(RetBool(FALSE))

\* lines 599-605: the remote detach, then wait for AVAILABLE
detach_call ==
    /\ At("detach", "call")
    /\ UNCHANGED <<ident, cache, fs, osdevs, plat, scen, cur>>
    /\ calls' = Bump(calls, "detach")
    /\ \/ /\ Return(RetBool(FALSE))                      \* EC2ResponseError
          /\ IF CanDetach(volume) THEN Fault ELSE NoFault
          /\ UNCHANGED remote
       \/ /\ CloudDetach(volume)
          /\ NoFault
          /\ Call(WaitFrame(AVAILABLE, DetachTimeout1), "after1")
          /\ ret' = ret

\* line 606: the result of the wait is not used, the status is read again
detach_after1 ==
    /\ At("detach", "after1")
    /\ UNCHANGED <<ident, fs, envvars>>
    /\ \E o \in StatusOutcomes :
          /\ ReadStatus(o, 0)
          /\ Notes((IF Truthy(ret) THEN {"wait1_true"} ELSE {})
                   \cup (IF o.v = AVAILABLE THEN {"available1"} ELSE {}))
          /\ IF DetachAgain(volume, o.v)
             THEN Goto("call2") /\ ret' = ret
             ELSE Return(RetBool(TRUE))

\* lines 607-614: detach once more, wait again
detach_call2 ==
    /\ At("detach", "call2")
    /\ UNCHANGED <<ident, cache, fs, osdevs, plat, scen, cur>>
    /\ calls' = Bump(calls, "detach")
    /\ \/ /\ Return(RetBool(FALSE))                      \* EC2ResponseError
          /\ IF CanDetach(volume) THEN Fault ELSE NoFault
          /\ UNCHANGED remote
       \/ /\ CloudDetach(volume)
          /\ NoFault
          /\ Call(WaitFrame(AVAILABLE, DetachTimeout2), "after2")
          /\ ret' = ret

\* lines 614-622
detach_after2 ==
    /\ At("detach", "after2")
    /\ UNCHANGED <<ident, fs, envvars>>
    /\ IF Truthy(ret)
       THEN /\ Return(RetBool(TRUE))
            /\ Note("wait2_true")
            /\ UNCHANGED <<cache, calls, faults>>
       ELSE \E o \in StatusOutcomes :                    \* the warning reads the status
               /\ ReadStatus(o, 0)
               /\ Return(RetBool(FALSE))
               /\ cur' = cur

(***************************************************************************)
(* Volume.unmount (lines 840-878).                                         *)
(***************************************************************************)
\* A slip: the state of the file system is not looked at.
MayUnmount_any(state) == TRUE

\* line 847: the states in which there is something to unmount
MayUnmount(state) == state \in {"RUNNING", "SHUTTING_DOWN"}

\* lines 845-849, 873-878.  fs.remove_nfs_share() comes first; fs.status()
\* (line 846, a method of the file system) then looks at the file system
\* again: it may leave the state, or find the file system running or in
\* error, which counts as something going wrong on its own account.
unmount_entry ==
    /\ At("unmount", "entry")
    /\ UNCHANGED <<ident, cache, envvars, calls>>
    /\ \E s \in {fs.state, "RUNNING", "ERROR"} :
          /\ IF s = fs.state THEN NoFault ELSE Fault
          /\ fs' = [fs EXCEPT !.shared = FALSE, !.state = s]
          /\ Notes({"share_removed"}
                   \cup (IF s \in {"RUNNING", "SHUTTING_DOWN"} THEN {"fs_up"} ELSE {})
                   \cup (IF fs.mounted THEN {"was_mounted"} ELSE {}))
          /\ IF MayUnmount(s)
             THEN IF fs.mounted
                  THEN GotoF([top EXCEPT !.pc = "try", !.k = 0]) /\ ret' = ret
                  ELSE Return(RetBool(FALSE))
             ELSE Return(RetNone)                         \* falls off the end

\* lines 866-871: after an iteration that did not break out of the loop
\* the method gives up if it was the last, else sleeps 3 s and goes on.
unmount_again ==
    IF top.k = UnmountTries - 1
    THEN Return(RetBool(FALSE)) /\ age' = age
    ELSE /\ GotoF([top EXCEPT !.k = top.k + 1])
         /\ ret' = ret
         /\ age' = Older(age, 3)

\* lines 850-872: one iteration of the loop.  The umount command is noted,
\* as one that follows a successful one if it does.
unmount_try ==
    /\ At("unmount", "try")
    /\ UNCHANGED <<ident, status_cache, envvars, calls, faults>>
    /\ LET again == {"umount"} \cup
                    (IF "umount_ok" \in cur.ev THEN {"umount_after_ok"} ELSE {}) IN
       \/ /\ fs.mounted                                  \* umount succeeds, path removed
          /\ fs' = [fs EXCEPT !.mounted = FALSE]
          /\ Notes({"umount_ok"} \cup again)
          /\ Return(RetBool(TRUE))
          /\ age' = age
       \/ /\ fs.mounted                                  \* umount succeeds, OSError in
          /\ fs' = [fs EXCEPT !.mounted = FALSE]         \* the clean-up: no break
          /\ Notes({"umount_ok", "cleanup_failed"} \cup again)
          /\ unmount_again
       \/ /\ fs' = fs                                    \* umount fails
          /\ Notes(again)
          /\ unmount_again

(***************************************************************************)
(* Volume.remove (lines 687-718).                                          *)
(***************************************************************************)
\* A slip: the unmount is left out.
remove_entry_no_unmount ==
    /\ At("remove", "entry")
    /\ UNCHANGED <<objvars, fs, envvars, calls, faults, cur, ret>>
    /\ Goto("detach")

\* line 704
remove_entry ==
    /\ At("remove", "entry")
    /\ UNCHANGED <<objvars, fs, envvars, calls, faults, cur, ret>>
    /\ Call(Frame("unmount", "entry"), "detach")

\* A slip: the detach argument is not looked at.
remove_detach_always ==
    /\ At("remove", "detach")
    /\ UNCHANGED <<objvars, fs, envvars, calls, faults, cur>>
    /\ Call(Frame("detach", "entry"), "delete") /\ ret' = ret

\* lines 705-708, 716-718
remove_detach ==
    /\ At("remove", "detach")
    /\ UNCHANGED <<objvars, fs, envvars, calls, faults, cur>>
    /\ IF top.dt
       THEN Call(Frame("detach", "entry"), "delete") /\ ret' = ret
       ELSE Return(RetNone)

\* A slip: the role of the file system is not looked at.
ShouldDelete_any_static(st, data, dv) == st \/ dv

\* lines 708-715
ShouldDelete(st, data, dv) == (st /\ ~data) \/ dv

remove_delete ==
    /\ At("remove", "delete")
    /\ UNCHANGED <<objvars, fs, envvars, calls, faults>>
    /\ Note(IF Truthy(ret) THEN "detach_true" ELSE "detach_false")
    /\ IF Truthy(ret) /\ ShouldDelete(static, fs.data, top.dv)
       THEN Call(Frame("delete", "entry"), "end") /\ ret' = ret
       ELSE Return(RetNone)

remove_end ==
    /\ At("remove", "end")
    /\ UNCHANGED <<objvars, fs, envvars, calls, faults, cur>>
    /\ Return(RetNone)

(***************************************************************************)
(* Volume.attach and Volume._do_attach (lines 487-590).                    *)
(***************************************************************************)
\* The history's record of an attach() that returns r in this step.
ArDone(c, r) == [c EXCEPT !.ar.done = TRUE, !.ar.r = r, !.ar.dev1 = device',
                          !.ar.fs1 = fs'.state, !.ar.at = top.pc]

\* lines 533-540: the statuses on which attach() returns at once; the
\* history keeps the first status read if it is one of them.
EarlyStatus == {NONE, DELETING, ATTACHED, IN_USE}
AtEntry(v) == IF v \in EarlyStatus THEN v ELSE "other"

\* line 537: the volume is attached already
AlreadyAttached_never(v) == FALSE

AlreadyAttached(v) == v = ATTACHED

\* line 533, first read: self.status == NONE
attach_entry ==
    /\ At("attach", "entry")
    /\ UNCHANGED <<ident, fs, envvars>>
    /\ \E o \in StatusOutcomes :
          /\ ReadStatus(o, 0)
          /\ LET c == [cur EXCEPT !.ar = [NoAr EXCEPT !.began = TRUE, !.dev0 = device,
                                                     !.st0 = AtEntry(o.v)]]
             IN  IF o.v = NONE
                 THEN Return(RetNone) /\ cur' = ArDone(c, RetNone)
                 ELSE Goto("e2") /\ ret' = ret /\ cur' = c

\* line 533, second read: self.status == DELETING
attach_e2 ==
    /\ At("attach", "e2")
    /\ UNCHANGED <<ident, fs, envvars>>
    /\ \E o \in StatusOutcomes :
          /\ ReadStatus(o, 0)
          /\ IF o.v = DELETING
             THEN Return(RetNone) /\ cur' = ArDone(cur, RetNone)
             ELSE Goto("e3") /\ UNCHANGED <<ret, cur>>

\* line 537, first read: self.status == ATTACHED
attach_e3 ==
    /\ At("attach", "e3")
    /\ UNCHANGED <<ident, fs, envvars>>
    /\ \E o \in StatusOutcomes :
          /\ ReadStatus(o, 0)
          /\ IF AlreadyAttached(o.v)
             THEN Return(RetDev(device)) /\ cur' = ArDone(cur, RetDev(device))
             ELSE Goto("e4") /\ UNCHANGED <<ret, cur>>

\* line 537, second read: self.status == IN_USE
attach_e4 ==
    /\ At("attach", "e4")
    /\ UNCHANGED <<ident, fs, envvars>>
    /\ \E o \in StatusOutcomes :
          /\ ReadStatus(o, 0)
          /\ IF o.v = IN_USE
             THEN Return(RetDev(device)) /\ cur' = ArDone(cur, RetDev(device))
             ELSE /\ Goto(IF from_snapshot_id # "None" THEN "e5" ELSE "e6")
                  /\ UNCHANGED <<ret, cur>>

\* lines 543-547: created from a snapshot and still CREATING
attach_e5 ==
    /\ At("attach", "e5")
    /\ UNCHANGED <<ident, fs, envvars, ret, cur>>
    /\ \E o \in StatusOutcomes :
          /\ ReadStatus(o, 0)
          /\ IF o.v = CREATING
             THEN Call(WaitFrame(AVAILABLE, Forever), "w1")
             ELSE Goto("e6")

\* lines 547-549: the wait failed: log (reads the status) and go on
attach_w1 ==
    /\ At("attach", "w1")
    /\ UNCHANGED <<ident, fs, envvars, ret, cur>>
    /\ Goto("cands")
    /\ IF Truthy(ret)
       THEN UNCHANGED <<cache, calls, faults>>
       ELSE \E o \in StatusOutcomes : ReadStatus(o, 0)

\* lines 550-551: any other status than AVAILABLE
attach_e6 ==
    /\ At("attach", "e6")
    /\ UNCHANGED <<ident, fs, envvars, ret, cur>>
    /\ \E o \in StatusOutcomes :
          /\ ReadStatus(o, 0)
          /\ IF o.v # AVAILABLE
             THEN Call(WaitFrame(AVAILABLE, Forever), "w2")
             ELSE Goto("cands")

\* lines 551-554
attach_w2 ==
    /\ At("attach", "w2")
    /\ UNCHANGED <<ident, fs, envvars>>
    /\ IF Truthy(ret)
       THEN Goto("cands") /\ UNCHANGED <<cache, calls, faults, ret, cur>>
       ELSE \E o \in StatusOutcomes :
               /\ ReadStatus(o, 0)
               /\ Return(RetNone)
               /\ cur' = ArDone(cur, RetNone)

\* line 557: the candidates; iterating over None raises TypeError
attach_cands ==
    /\ At("attach", "cands")
    /\ UNCHANGED <<ident, cache, fs, envvars, calls, faults>>
    /\ LET cs == LikelyNextDevices(DeviceList(osdevs, plat), plat)
       IN  IF cs = <<>>
           THEN Raise("TypeError") /\ cur' = ArDone(cur, RetRaise("TypeError"))
           ELSE GotoF([top EXCEPT !.pc = "next", !.cands = cs]) /\ UNCHANGED <<ret, cur>>

\* lines 557-560, 590: the next candidate, the devices before the attach
attach_next ==
    /\ At("attach", "next")
    /\ UNCHANGED <<ident, cache, fs, envvars, calls, faults>>
    /\ IF top.cands = <<>>
       THEN Return(RetNone) /\ cur' = ArDone(cur, RetNone)
       ELSE /\ GotoF([top EXCEPT !.pc = "do", !.ad = Head(top.cands),
                                 !.cands = Tail(top.cands),
                                 !.pre = DeviceList(osdevs, plat)])
            /\ UNCHANGED <<ret, cur>>

\* The cloud accepts an attach of an available volume of this zone.
CanAttach(v) == Exists(remote[v]) /\ remote[v].st = "available" /\ remote[v].zoneok
ZoneMismatch(v) == Exists(remote[v]) /\ ~remote[v].zoneok

CloudAttach(v, d) ==
    /\ CanAttach(v)
    /\ \E st \in {"in-use", "attaching"} :
          remote' = [remote EXCEPT ![v].st = st, ![v].att = "attaching",
                                   ![v].inst = "this", ![v].rdev = d]

\* A slip: the zone mismatch is logged and nothing else.
FsAfterAttachError_logged(f, code) == f

\* _do_attach, lines 505-515: the file system after the attach call raised
FsAfterAttachError(f, code) ==
    IF code = "InvalidVolume.ZoneMismatch" THEN [f EXCEPT !.state = "ERROR"] ELSE f

\* _do_attach, lines 492-521: the remote attach.  It is noted when the call
\* is made with a status other than AVAILABLE as the last one polled.
attach_do ==
    /\ At("attach", "do")
    /\ UNCHANGED <<ident, cache, osdevs, plat, scen, ret>>
    /\ calls' = Bump(calls, "attach")
    /\ LET again == IF cur.ar.zm THEN {"attach_after_zm"} ELSE {}
           unseen == IF status_cache # AVAILABLE THEN {"attach_unavailable"} ELSE {}
           c == [cur EXCEPT !.ev = @ \cup again \cup unseen]
       IN
       \/ /\ ZoneMismatch(volume)                        \* InvalidVolume.ZoneMismatch
          /\ NoFault
          /\ fs' = FsAfterAttachError(fs, "InvalidVolume.ZoneMismatch")
          /\ cur' = [c EXCEPT !.ar.zm = TRUE]
          /\ UNCHANGED remote
          /\ Goto("next")
       \/ /\ ~ZoneMismatch(volume)                       \* any other EC2ResponseError
          /\ IF CanAttach(volume) THEN Fault ELSE NoFault
          /\ fs' = FsAfterAttachError(fs, "IncorrectState")
          /\ cur' = [c EXCEPT !.ev = @ \cup {"attach_failed"}]
          /\ UNCHANGED remote
          /\ Goto("next")
       \/ /\ CloudAttach(volume, top.ad)
          /\ NoFault
          /\ cur' = c
          /\ fs' = fs
          /\ Goto("dostatus")

\* _do_attach, line 522: returns self.status, a non-empty string;
\* then line 562: wait for ATTACHED
attach_dostatus ==
    /\ At("attach", "dostatus")
    /\ UNCHANGED <<ident, fs, envvars, ret, cur>>
    /\ \E o \in StatusOutcomes :
          /\ ReadStatus(o, 0)
          /\ Call(WaitFrame(ATTACHED, Forever), "attached")

\* lines 562-563: ATTACHED reached: let the device settle
attach_attached ==
    /\ At("attach", "attached")
    /\ UNCHANGED <<ident, status_cache, fs, envvars, calls, faults, ret, cur>>
    /\ IF Truthy(ret)
       THEN Goto("post") /\ age' = Older(age, AttachSettle)
       ELSE Goto("cleanup") /\ age' = age

\* A slip: the number of new devices is looked at before the requested one.
ResolveDevice_count_first(req, new) ==
    IF Cardinality(new) > 1 THEN NoDev
    ELSE IF req \in new THEN req
    ELSE CHOOSE d \in new : TRUE

\* A slip: only the requested device is taken.
ResolveDevice_requested_only(req, new) ==
    IF req \in new THEN req ELSE NoDev

\* lines 573-585: the device taken among the new ones (there is one at
\* least); NoDev when the method gives up
ResolveDevice(req, new) ==
    IF req \in new THEN req
    ELSE IF Cardinality(new) > 1 THEN NoDev
    ELSE CHOOSE d \in new : TRUE

\* lines 564-585: which device is new
attach_post ==
    /\ At("attach", "post")
    /\ UNCHANGED <<volume, size, from_snapshot_id, from_archive, static,
                   snapshot, cache, fs, envvars, calls, faults>>
    /\ LET new == DeviceList(osdevs, plat) \ top.pre
           c == [cur EXCEPT !.ar.req = top.ad, !.ar.new = new, !.ar.resolved = TRUE]
           d == ResolveDevice(top.ad, new)
       IN  IF new = {}
           THEN Goto("cleanup") /\ UNCHANGED <<device, ret, cur>>
           ELSE /\ device' = IF d = NoDev THEN device ELSE d
                /\ Return(RetDev(d))
                /\ cur' = ArDone(c, RetDev(d))

\* A slip: the name of the candidate is not looked at.
DetachInvisible_any_name(v, ad) == v # AVAILABLE

\* line 587: detach unless the volume is available or the candidate's name
\* has "vd" before its letter (/dev/vd?, /dev/xvd?)
DetachInvisible(v, ad) == v # AVAILABLE /\ ad.base \notin {VD, XVD}

\* lines 587-588: detach in case it attached invisibly.  The history notes
\* the scheme of a candidate left unresolved with the volume not
\* available, and the scheme of one detach() was called for.
attach_cleanup ==
    /\ At("attach", "cleanup")
    /\ UNCHANGED <<ident, fs, envvars, ret>>
    /\ \E o \in StatusOutcomes :
       LET scheme == IF top.ad.base = SD THEN "sd" ELSE "vd" IN
          /\ ReadStatus(o, 0)
          /\ IF DetachInvisible(o.v, top.ad)
             THEN /\ Call(Frame("detach", "entry"), "cwait")
                  /\ Notes({"detach_" \o scheme}
                           \cup (IF o.v # AVAILABLE THEN {"unresolved_" \o scheme} ELSE {}))
             ELSE /\ Goto("cwait")
                  /\ Notes(IF o.v # AVAILABLE THEN {"unresolved_" \o scheme} ELSE {})

\* line 589
attach_cwait ==
    /\ At("attach", "cwait")
    /\ UNCHANGED <<objvars, fs, envvars, calls, faults, ret, cur>>
    /\ Call(WaitFrame(AVAILABLE, AttachRetryTimeout), "next")

(***************************************************************************)
(* Volume.mount (lines 720-838).                                           *)
(***************************************************************************)
\* Filesystem.nfs_share_and_set_state, the callback of a finished mount
Shared(f) == [f EXCEPT !.shared = TRUE, !.state = "RUNNING"]

\* line 726: for counter in range(30), k iterations done
OutOfTries_one_more(k) == k > MountTries

OutOfTries(k) == k >= MountTries

\* lines 726-727: one iteration; after MountTries the method falls off its end
mount_entry ==
    /\ At("mount", "entry")
    /\ UNCHANGED <<ident, fs, envvars>>
    /\ IF OutOfTries(top.k)
       THEN Return(RetNone) /\ Note("exhausted") /\ UNCHANGED <<cache, calls, faults>>
       ELSE \E o \in StatusOutcomes :
               /\ ReadStatus(o, 0)
               /\ Goto(IF o.v = ATTACHED THEN "dev" ELSE "wait")
               /\ Notes(IF o.v = ATTACHED THEN {"attached"} ELSE {})
               /\ ret' = ret

\* lines 835-838: the warning reads the status; back off
mount_wait ==
    /\ At("mount", "wait")
    /\ UNCHANGED <<ident, fs, envvars, cur, ret>>
    /\ \E o \in StatusOutcomes :
          /\ ReadStatus(o, MountSleep)
          /\ GotoF([top EXCEPT !.pc = "entry", !.k = top.k + 1])

\* lines 728-755: the mount point, then wait for the device path;
\* os.path.exists(None) raises TypeError
mount_dev ==
    /\ At("mount", "dev")
    /\ UNCHANGED <<ident, status_cache, fs, envvars, calls, faults, cur>>
    /\ IF device = NoDev
       THEN Raise("TypeError") /\ age' = age
       ELSE /\ Goto("mount")
            /\ ret' = ret
            /\ age' = IF device \in osdevs THEN age ELSE Older(age, 4)

\* lines 759-789: mount; failing that, make a file system and mount again
mount_mount ==
    /\ At("mount", "mount")
    /\ UNCHANGED <<objvars, envvars, calls, faults>>
    /\ \/ /\ device \in osdevs                           \* the first mount succeeds
          /\ fs' = [fs EXCEPT !.mounted = TRUE]
          /\ Note("mounted")
          /\ Goto("post") /\ ret' = ret
       \/ /\ device \in osdevs                           \* mkfs, second mount succeeds
          /\ fs' = [fs EXCEPT !.mounted = TRUE]
          /\ Note("formatted")
          /\ Goto("post") /\ ret' = ret
       \/ /\ Note("mount2_failed")                       \* mkfs, second mount fails
          /\ fs' = fs
          /\ Return(RetBool(FALSE))
       \/ /\ Note("mkfs_failed")                         \* mkfs fails: falls through
          /\ fs' = fs
          /\ Goto("post") /\ ret' = ret

\* The callback has run once more in this call.
Callback(c, e) == [c EXCEPT !.ev = @ \cup {e}, !.sh = @ + 1]

\* A slip: the file system is shared as soon as the extraction is started.
mount_post_share_early ==
    /\ At("mount", "post")
    /\ UNCHANGED <<objvars, envvars, calls, faults>>
    /\ Return(RetBool(TRUE))
    /\ IF from_archive
       THEN \/ fs' = Shared(fs) /\ cur' = Callback(cur, "shared")
            \/ /\ fs' = [Shared(fs) EXCEPT !.extracting = TRUE]
               /\ cur' = Callback(cur, "extracting")
       ELSE fs' = Shared(fs) /\ cur' = Callback(cur, "shared")

\* lines 790-834: ownership, then share, or extract the archive first
mount_post ==
    /\ At("mount", "post")
    /\ UNCHANGED <<objvars, envvars, calls, faults>>
    /\ Return(RetBool(TRUE))
    /\ IF from_archive
       THEN \/ fs' = Shared(fs) /\ cur' = Callback(cur, "shared")  \* populated
            \/ /\ fs' = [fs EXCEPT !.state = "CONFIGURING", !.extracting = TRUE]
               /\ Note("extracting")
       ELSE fs' = Shared(fs) /\ cur' = Callback(cur, "shared")

(***************************************************************************)
(* Volume.add (lines 654-685).                                             *)
(***************************************************************************)
add_entry ==
    /\ At("add", "entry")
    /\ UNCHANGED <<objvars, fs, envvars, calls, faults, cur, ret>>
    /\ Call(Frame("create", "entry"), "classify")

\* lines 664-681
add_classify ==
    /\ At("add", "classify")
    /\ UNCHANGED <<volume, device, size, from_snapshot_id, from_archive,
                   snapshot, cache, envvars, calls, faults, cur, ret>>
    /\ IF ~fs.data /\ (from_snapshot_id # "None" \/ from_archive)
       THEN IF from_archive
            THEN static' = static /\ fs' = [fs EXCEPT !.kind = "volume"]
            ELSE static' = TRUE /\ fs' = [fs EXCEPT !.kind = "snapshot"]
       ELSE static' = static /\ fs' = [fs EXCEPT !.kind = "volume"]
    /\ Call(Frame("attach", "entry"), "attached")

\* lines 681-685
add_attached ==
    /\ At("add", "attached")
    /\ UNCHANGED <<objvars, fs, envvars, calls, faults, cur>>
    /\ IF Truthy(ret)
       THEN Call(Frame("mount", "entry"), "end") /\ ret' = ret
       ELSE Return(RetNone)

add_end ==
    /\ At("add", "end")
    /\ UNCHANGED <<objvars, fs, envvars, calls, faults, cur>>
    /\ Return(RetNone)

(***************************************************************************)
(* Volume.__init__ (lines 40-69), after the fields are set.                *)
(***************************************************************************)
init_entry ==
    /\ At("__init__", "entry")
    /\ UNCHANGED <<objvars, fs, envvars, calls, faults, cur, ret>>
    /\ IF top.vid # NoVol
       THEN Call([Frame("update", "entry") EXCEPT !.vid = top.vid], "snaps")
       ELSE IF from_snapshot_id # "None" \/ from_archive
       THEN Call(Frame("create", "entry"), "snaps")
       ELSE Goto("snaps")

\* line 69: derived_snapshots()
init_snaps ==
    /\ At("__init__", "snaps")
    /\ UNCHANGED <<objvars, fs, envvars, cur>>
    /\ calls' = Bump(calls, "get_all_snapshots")
    /\ NoFault
    /\ Return(RetNone)

(***************************************************************************)
(* The caller: one public method at a time, on an idle object.             *)
(***************************************************************************)
\* The public methods, and the round trip of section 8 of the specification.
PublicOps == {"create", "attach", "detach", "delete", "mount", "unmount",
              "add", "remove", "update"}
\* What a caller that watches the volume, and may delete it, uses.
WatchOps == {"status", "wait_for_status", "delete"}
RoundTrip == <<"create", "attach", "mount", "unmount", "detach">>

\* The methods the caller may call next:
\*   "any"   any method, MaxOps calls in all;
\*   "one"   any one method on the object as constructed;
\*   "trip"  the round trip, each call made once the one before succeeded;
\*   "watch" MaxReads calls, each a read of the status, a wait for one or
\*           a delete; the status is read once more after a last delete.
Menu ==
    CASE scen = "any" -> IF cur.n < MaxOps THEN PublicOps ELSE {}
      [] scen = "watch" -> IF cur.n < MaxReads THEN WatchOps
                           ELSE IF cur.n = MaxReads /\ cur.op = "delete"
                           THEN {"status"} ELSE {}
      [] scen = "one" -> IF cur.n < 1 THEN PublicOps ELSE {}
      [] scen = "trip" -> IF cur.n < Len(RoundTrip) /\ (cur.n = 0 \/ Truthy(ret))
                          THEN {RoundTrip[cur.n + 1]} ELSE {}

\* The world is followed while a call runs or another call can follow.
Live == ~Idle \/ Menu # {}

Begin(f) ==
    /\ Idle
    /\ f.op \in Menu
    /\ stack' = <<f>>
    /\ calls' = NoCalls
    /\ cur' = [NewCur(f.op) EXCEPT !.dv = f.dv, !.dt = f.dt, !.n = cur.n + 1,
                                   !.w.tgt = f.tgt, !.w.tmo = f.tmo]
    /\ ret' = RetNone
    /\ UNCHANGED <<objvars, fs, envvars, faults>>

PublicCreate == Begin(Frame("create", "entry"))
PublicAttach == Begin(Frame("attach", "entry"))
PublicDetach == Begin(Frame("detach", "entry"))
PublicDelete == Begin(Frame("delete", "entry"))
PublicMount == Begin(Frame("mount", "entry"))
PublicUnmount == Begin(Frame("unmount", "entry"))
PublicAdd == Begin(Frame("add", "entry"))
PublicRemove ==
    \E dv \in BOOLEAN, dt \in BOOLEAN :
       Begin([Frame("remove", "entry") EXCEPT !.dv = dv, !.dt = dt])
PublicUpdate ==
    \E vid \in VolIds \cup {BogusId} :
       Begin([Frame("update", "entry") EXCEPT !.vid = vid])
PublicStatus == Begin(Frame("status", "entry"))
PublicWait ==
    \E tgt \in {AVAILABLE, ATTACHED}, tmo \in {Forever, DetachTimeout2} :
       Begin(WaitFrame(tgt, tmo))

(***************************************************************************)
(* The cloud, the operating system, the orchestrator, the clock.           *)
(***************************************************************************)
\* Time passes between two calls (within a call it passes in its sleeps):
\* a second for the caller that watches the volume, and for the others
\* enough for the cached status to expire.
Tick ==
    /\ Idle /\ Live
    /\ age \notin {Never, AgeCap}
    /\ age' = IF scen = "watch" THEN age + 1 ELSE AgeCap
    /\ UNCHANGED <<ident, status_cache, fs, envvars, stack, ret, calls, faults, cur>>

\* The names under which the OS may show a volume requested as d.
AppearNames(d, p) ==
    IF p.nvme THEN {Dev(NVME, Cardinality({e \in osdevs : e.base = NVME}))}
    ELSE {d, Dev(XVD, d.id)}

\* The cloud finishes what it was asked to do with volume v.
CloudProgress ==
    /\ Live
    /\ UNCHANGED <<objvars, fs, plat, scen, stack, ret, calls, faults, cur>>
    /\ \E v \in VolIds :
       LET r == remote[v] IN
          \/ /\ r.st = "creating"
             /\ remote' = [remote EXCEPT ![v].st = "available"]
             /\ osdevs' = osdevs
          \/ /\ r.att = "attaching" /\ r.inst = "this"
             /\ remote' = [remote EXCEPT ![v].st = "in-use", ![v].att = "attached"]
             /\ osdevs' = osdevs
          \/ /\ r.att = "detaching"
             /\ remote' = [remote EXCEPT ![v].st = "available", ![v].att = "none",
                                         ![v].inst = "none", ![v].rdev = NoDev,
                                         ![v].osdev = NoDev]
             /\ osdevs' = osdevs \ {r.osdev}
          \/ /\ r.st = "deleting"
             /\ remote' = [remote EXCEPT ![v].st = "gone"]
             /\ osdevs' = osdevs

\* The cloud reports a status string the table does not know.
CloudFault ==
    /\ Live
    /\ Fault
    /\ UNCHANGED <<objvars, fs, osdevs, plat, scen, stack, ret, calls, cur>>
    /\ \E v \in VolIds :
          /\ remote[v].st = "creating"
          /\ remote' = [remote EXCEPT ![v].st = "error"]

\* Someone else deletes an available volume in the cloud (followed for the
\* objects that take one call or are watched).
CloudDelete ==
    /\ Live /\ scen \in {"one", "watch"}
    /\ Fault
    /\ UNCHANGED <<objvars, fs, osdevs, plat, scen, stack, ret, calls, cur>>
    /\ \E v \in VolIds :
          /\ remote[v].st = "available" /\ remote[v].att = "none"
          /\ remote' = [remote EXCEPT ![v].st = "deleting"]

\* The OS shows the device of a volume attached to this instance.
DeviceAppears ==
    /\ Live
    /\ UNCHANGED <<objvars, fs, plat, scen, stack, ret, calls, faults, cur>>
    /\ \E v \in VolIds :
          /\ remote[v].att = "attached" /\ remote[v].inst = "this"
          /\ remote[v].osdev = NoDev
          /\ \E d \in AppearNames(remote[v].rdev, plat) \ osdevs :
                /\ osdevs' = osdevs \cup {d}
                /\ remote' = [remote EXCEPT ![v].osdev = d]

\* Another device, not of this object's doing, shows up while attach() runs.
ExtDev(p) == IF p.nvme THEN Dev(NVME, 6) ELSE Dev(SD, 25)

ExternalDevice ==
    /\ \E i \in DOMAIN stack : stack[i].op = "attach"
    /\ ExtDev(plat) \notin osdevs
    /\ Fault
    /\ osdevs' = osdevs \cup {ExtDev(plat)}
    /\ UNCHANGED <<objvars, fs, remote, plat, scen, stack, ret, calls, cur>>

\* The archive extraction started by mount() completes: its callback runs.
ExtractDone ==
    /\ Live
    /\ fs.extracting
    /\ fs' = [Shared(fs) EXCEPT !.extracting = FALSE]
    /\ cur' = IF "extracting" \in cur.ev THEN Callback(cur, "extracted") ELSE cur
    /\ UNCHANGED <<objvars, envvars, stack, ret, calls, faults>>

\* Between two calls the orchestrator moves the file system's state.
Orchestrate ==
    /\ Idle /\ Live
    /\ \E s \in {"RUNNING", "SHUTTING_DOWN"} :
          /\ fs.state # s
          /\ fs' = [fs EXCEPT !.state = s]
    /\ UNCHANGED <<objvars, envvars, stack, ret, calls, faults, cur>>

(***************************************************************************)
(* Initial states: the constructor's arguments and the world it runs in.   *)
(***************************************************************************)
\* The instance: its cloud, its type and the devices it boots with.
Platform(ct, nv, devs) == [cloud_type |-> ct, nvme |-> nv, devs |-> devs]
Xen == Platform("ec2", FALSE, {Dev(XVD, 0)})
Nitro == Platform("ec2", TRUE, {Dev(NVME, 0)})
NitroOther == Platform("ec2", FALSE, {})
Kvm == Platform("openstack", FALSE, {Dev(VD, 0)})
Scsi == Platform("openstack", FALSE, {Dev(SD, 0)})
Platforms == {Xen, Nitro, NitroOther, Kvm, Scsi}

\* The volume the cloud already holds when the object is constructed:
\* none, being created, available, available in another zone, attached to
\* this instance (a restart), attached to another instance.
Creating == RVol("creating", "none", "none", TRUE, NoDev, "None", 1)
Available == RVol("available", "none", "none", TRUE, NoDev, "None", 1)
Misplaced == RVol("available", "none", "none", FALSE, NoDev, "None", 1)
AttachedElsewhere == RVol("in-use", "attached", "other", TRUE, Dev(SD, LetterF), "s1", 1)
AttachedHere(d) ==
    [RVol("in-use", "attached", "this", TRUE, Dev(SD, LetterF), "s1", 1) EXCEPT !.osdev = d]

\* The constructor's arguments: [vid, size, snap, archive].
\* A volume attached to this instance whose detachment is under way.
DetachingHere(d) == [AttachedHere(d) EXCEPT !.att = "detaching"]

Args(vid, sz, snap, arch) == [vid |-> vid, size |-> sz, snap |-> snap, archive |-> arch]
Blank == Args(NoVol, 1, "None", FALSE)
Unset == Args(NoVol, 0, "None", FALSE)
FromSnapshot == Args(NoVol, 0, "s1", FALSE)
FromArchive == Args(NoVol, 1, "None", TRUE)
Existing == Args(1, 0, "None", FALSE)
Bogus == Args(BogusId, 0, "None", FALSE)

\* The state when __init__ has set the fields (lines 44-59).
Constructed(sc, a, st, data, p, first, devs, mounted) ==
    /\ volume = NoVol
    /\ device = NoDev
    /\ size = a.size
    /\ from_snapshot_id = a.snap
    /\ from_archive = a.archive
    /\ static = st
    /\ snapshot = "None"
    /\ status_cache = NONE
    /\ age = Never
    /\ fs = [state |-> IF mounted THEN "RUNNING" ELSE "UNSTARTED", data |-> data,
             kind |-> "None", mounted |-> mounted, shared |-> mounted,
             extracting |-> FALSE]
    /\ plat = [cloud_type |-> p.cloud_type, nvme |-> p.nvme]
    /\ osdevs = p.devs \cup devs
    /\ scen = sc
    /\ remote = [v \in VolIds |-> IF v = 1 THEN first ELSE AbsentVol]
    /\ stack = <<[Frame("__init__", "entry") EXCEPT !.vid = a.vid]>>
    /\ ret = RetNone
    /\ calls = NoCalls
    /\ cur = NewCur("__init__")
    /\ faults = 0

\* The objects followed: one that takes any calls; one call on each kind of
\* object (every origin on one platform, every policy for an existing
\* volume, either data role for a snapshot, either static flag for an
\* archive, every platform for an
\* existing volume, a restart with the volume attached or being detached);
\* the round trip;
\* objects that are watched (unbound, being created, available, attached).
Init ==
    \/ Constructed("any", Blank, FALSE, FALSE, Xen, AbsentVol, {}, FALSE)
    \/ \E a \in {Blank, Unset} :
          Constructed("one", a, FALSE, FALSE, Xen, AbsentVol, {}, FALSE)
    \/ \E data \in BOOLEAN :
          Constructed("one", FromSnapshot, FALSE, data, Xen, AbsentVol, {}, FALSE)
    \/ \E st \in BOOLEAN :
          Constructed("one", FromArchive, st, FALSE, Xen, AbsentVol, {}, FALSE)
    \/ \E st \in BOOLEAN, data \in BOOLEAN :
          Constructed("one", Existing, st, data, Xen, Available, {}, FALSE)
    \/ \E p \in Platforms, first \in {Available, Misplaced} :
          Constructed("one", Existing, FALSE, FALSE, p, first, {}, FALSE)
    \/ \E a \in {Existing, Bogus} :
          Constructed("one", a, FALSE, FALSE, Xen,
                      IF a.vid = 1 THEN AttachedElsewhere ELSE AbsentVol, {}, FALSE)
    \/ \E st \in BOOLEAN, data \in BOOLEAN, mounted \in BOOLEAN :
          Constructed("one", Existing, st, data, Xen, AttachedHere(Dev(XVD, LetterF)),
                      {Dev(XVD, LetterF)}, mounted)
    \/ Constructed("one", Existing, FALSE, FALSE, Xen,
                   DetachingHere(Dev(XVD, LetterF)), {Dev(XVD, LetterF)}, FALSE)
    \/ \E p \in Platforms \ {NitroOther} :
          Constructed("trip", Blank, FALSE, FALSE, p, AbsentVol, {}, FALSE)
    \/ \E a \in {Blank, Bogus} :
          Constructed("watch", a, FALSE, FALSE, Xen, AbsentVol, {}, FALSE)
    \/ \E first \in {Creating, Available} :
          Constructed("watch", Existing, FALSE, FALSE, Xen, first, {}, FALSE)
    \/ Constructed("watch", Existing, FALSE, FALSE, Xen,
                   AttachedHere(Dev(XVD, LetterF)), {Dev(XVD, LetterF)}, FALSE)

Next ==
    \/ init_entry \/ init_snaps
    \/ create_entry \/ create_snap \/ create_status \/ create_reject
    \/ create_make \/ create_tag
    \/ status_read
    \/ wait_entry \/ wait_check \/ wait_sleep \/ wait_timeout
    \/ delete_entry \/ update_entry
    \/ detach_entry \/ detach_entry2 \/ detach_not \/ detach_call
    \/ detach_after1 \/ detach_call2 \/ detach_after2
    \/ unmount_entry \/ unmount_try
    \/ remove_entry \/ remove_detach \/ remove_delete \/ remove_end
    \/ attach_entry \/ attach_e2 \/ attach_e3 \/ attach_e4 \/ attach_e5
    \/ attach_w1 \/ attach_e6 \/ attach_w2 \/ attach_cands \/ attach_next
    \/ attach_do \/ attach_dostatus \/ attach_attached \/ attach_post
    \/ attach_cleanup \/ attach_cwait
    \/ mount_entry \/ mount_wait \/ mount_dev \/ mount_mount \/ mount_post
    \/ add_entry \/ add_classify \/ add_attached \/ add_end
    \/ PublicCreate \/ PublicAttach \/ PublicDetach \/ PublicDelete
    \/ PublicMount \/ PublicUnmount \/ PublicAdd \/ PublicRemove \/ PublicUpdate
    \/ PublicStatus \/ PublicWait
    \/ Tick \/ CloudProgress \/ CloudFault \/ CloudDelete \/ DeviceAppears \/ ExternalDevice
    \/ ExtractDone \/ Orchestrate

Spec == Init /\ [][Next]_vars

(***************************************************************************)
(* detach() on its own, run by a thread that keeps running: the steps of   *)
(* the constructor, of detach() and of wait_for_status() are taken as long *)
(* as one is possible.  Nothing is assumed of the cloud: a detachment may   *)
(* never complete.                                                         *)
(***************************************************************************)
DetachInit ==
    \/ Constructed("one", Blank, FALSE, FALSE, Xen, AbsentVol, {}, FALSE)
    \/ \E first \in {Creating, Available} :
          Constructed("one", Existing, FALSE, FALSE, Xen, first, {}, FALSE)
    \/ \E first \in {AttachedHere(Dev(XVD, LetterF)), DetachingHere(Dev(XVD, LetterF))} :
          Constructed("one", Existing, FALSE, FALSE, Xen, first, {Dev(XVD, LetterF)}, FALSE)

DetachStep ==
    \/ init_entry \/ init_snaps \/ update_entry
    \/ detach_entry \/ detach_entry2 \/ detach_not \/ detach_call
    \/ detach_after1 \/ detach_call2 \/ detach_after2
    \/ wait_entry \/ wait_check \/ wait_sleep \/ wait_timeout

DetachNext == DetachStep \/ PublicDetach \/ CloudProgress \/ CloudDelete

DetachSpec == DetachInit /\ [][DetachNext]_vars /\ WF_vars(DetachStep)

(***************************************************************************)
(* Volume._increment_device_id on its own (lines 410-440): called with     *)
(* every device name of the three schemes, on every platform.  The frame   *)
(* keeps the argument; the result is the value returned.                   *)
(***************************************************************************)
IncrInit ==
    \E p \in Platforms, b \in {SD, XVD, VD}, i \in 0..LetterZ :
       /\ volume = NoVol /\ device = NoDev /\ size = 1
       /\ from_snapshot_id = "None" /\ from_archive = FALSE /\ static = FALSE
       /\ snapshot = "None" /\ status_cache = NONE /\ age = Never
       /\ fs = [state |-> "UNSTARTED", data |-> FALSE, kind |-> "None",
                mounted |-> FALSE, shared |-> FALSE, extracting |-> FALSE]
       /\ plat = [cloud_type |-> p.cloud_type, nvme |-> p.nvme]
       /\ osdevs = p.devs
       /\ scen = "one"
       /\ remote = [v \in VolIds |-> AbsentVol]
       /\ stack = <<[Frame("_increment_device_id", "entry") EXCEPT !.ad = Dev(b, i)]>>
       /\ ret = RetNone
       /\ calls = NoCalls
       /\ cur = NewCur("_increment_device_id")
       /\ faults = 0

increment_entry ==
    /\ At("_increment_device_id", "entry")
    /\ Goto("done")
    /\ ret' = RetDev(IncrementDeviceId(top.ad, plat))
    /\ UNCHANGED <<objvars, fs, envvars, calls, cur, faults>>

IncrSpec == IncrInit /\ [][increment_entry]_vars

(***************************************************************************)
(* The properties.                                                         *)
(***************************************************************************)
\* The status of the bound volume as the cloud has it.
TrueStatus ==
    IF volume = NoVol \/ ~Exists(remote[volume]) THEN NONE ELSE MapStatus(remote[volume])

\* The round trip is done: its five calls were made and each succeeded.
TripDone == scen = "trip" /\ Idle /\ cur.n = Len(RoundTrip) /\ Truthy(ret)

\* C1: once create(), attach(), mount(), unmount() and detach() have each
\* succeeded in that order on a volume that started unprovisioned, the
\* status is AVAILABLE and the device field is null.
C1_RoundTrip ==
    TripDone => status_cache = AVAILABLE /\ TrueStatus = AVAILABLE /\ device = NoDev

\* What of C1 the code keeps: the round trip ends with status AVAILABLE.
C1_RoundTripStatus ==
    TripDone => status_cache = AVAILABLE /\ TrueStatus = AVAILABLE

C1_Witness == TripDone /\ device # NoDev

\* C2: between two calls, whatever calls were made, the device field is
\* non-null only if the status of the volume is ATTACHED or IN_USE.
C2_DeviceOnlyWhenAttached ==
    (Idle /\ scen = "any" /\ device # NoDev) => TrueStatus \in {ATTACHED, IN_USE}

C2_Witness ==
    /\ Idle /\ scen = "any" /\ cur.op = "detach" /\ ret = RetBool(TRUE)
    /\ device # NoDev /\ TrueStatus = AVAILABLE

\* remove(mount_point, delete_vols, detach) has returned.
Removed(dv, dt) == Idle /\ cur.op = "remove" /\ cur.dv = dv /\ cur.dt = dt

\* The volume a call was made on exists in the cloud.
BoundAtEntry == cur.vol0 # NoVol /\ Exists(remote[cur.vol0])

\* C3: remove(mount_point, delete_vols=True) with detach requested, on an
\* object bound to a volume, issues the remote delete, whatever the status
\* and the static flag.
C3_DeleteVolsAlwaysDeletes ==
    (Removed(TRUE, TRUE) /\ cur.vol0 # NoVol /\ remote[cur.vol0].st # "absent")
        => calls["delete_volume"] > 0

C3_Witness ==
    /\ Removed(TRUE, TRUE) /\ BoundAtEntry /\ ~cur.static0
    /\ calls["detach"] = 0 /\ calls["delete_volume"] = 0
    /\ TrueStatus = AVAILABLE

\* C4: a remove() called with detach=False issues no remote detach and no
\* remote delete, whatever static and delete_vols are; the object stays
\* bound to its volume, its device field stays, and a volume that was
\* attached stays attached.
C4_NoDetachNoDelete ==
    (cur.op = "remove" /\ ~cur.dt) =>
        /\ calls["detach"] = 0
        /\ calls["delete_volume"] = 0
        /\ volume = cur.vol0
        /\ device = cur.dev0
        /\ cur.att0 = "attached" => remote[cur.vol0].att = "attached"

C4_Witness ==
    /\ Removed(TRUE, FALSE) /\ cur.static0 /\ ~fs.data
    /\ cur.att0 = "attached" /\ ~fs.mounted /\ ret = RetNone

Resolved == cur.ar.done /\ cur.ar.resolved

\* C6 as stated: when more than one device is new after the attach,
\* attach() returns None and leaves the device field as it was, whichever
\* devices the new ones are.
C6_SeveralNewAlwaysFail ==
    (Resolved /\ Cardinality(cur.ar.new) > 1)
        => cur.ar.r = RetNone /\ cur.ar.dev1 = cur.ar.dev0

\* C6, amended: when more than one device is new after the attach and the
\* requested candidate is not one of them, attach() returns None and leaves
\* the device field as it was; when the requested candidate is one of them,
\* attach() assigns and returns it.
C6_SeveralNew ==
    (Resolved /\ Cardinality(cur.ar.new) > 1) =>
        IF cur.ar.req \in cur.ar.new
        THEN cur.ar.r = RetDev(cur.ar.req) /\ cur.ar.dev1 = cur.ar.req
        ELSE cur.ar.r = RetNone /\ cur.ar.dev1 = cur.ar.dev0

C6_Witness ==
    /\ Resolved /\ Cardinality(cur.ar.new) > 1 /\ cur.ar.req \notin cur.ar.new
    /\ cur.ar.r = RetNone

\* C7: when the volume reached ATTACHED and exactly one device is new,
\* attach() assigns that device to the device field and returns it, be it
\* the requested candidate or not.
C7_OneNewIsTaken ==
    (Resolved /\ Cardinality(cur.ar.new) = 1) =>
        \E d \in cur.ar.new : cur.ar.r = RetDev(d) /\ cur.ar.dev1 = d

C7_Witness ==
    /\ Resolved /\ Cardinality(cur.ar.new) = 1 /\ cur.ar.req \notin cur.ar.new
    /\ cur.ar.r.t = "dev" /\ device \in cur.ar.new

\* C8: an attach() in which a remote attach failed with a zone mismatch
\* leaves the file system in state ERROR, returns None without raising and
\* assigns no device.
C8_ZoneMismatch ==
    /\ (cur.ar.began /\ cur.ar.zm) => fs.state = "ERROR"
    /\ (cur.ar.done /\ cur.ar.zm) =>
          /\ cur.ar.fs1 = "ERROR"
          /\ cur.ar.r = RetNone
          /\ cur.ar.dev1 = cur.ar.dev0

C8_Witness == cur.ar.done /\ cur.ar.zm /\ cur.op = "attach" /\ Idle

\* create() was entered with size, snapshot id and archive all unset.
CreateUnset == cur.cr.size0 = 0 /\ cur.cr.snap0 = "None" /\ ~from_archive

\* C9: a create() called with size, snapshot id and archive all unset
\* returns False, issues no remote call and changes neither the binding
\* nor the status nor the size.
C9_NothingToCreate ==
    (cur.cr.began /\ CreateUnset) =>
        /\ cur.cr.done
        /\ cur.cr.r = RetBool(FALSE)
        /\ cur.cr.calls1 = cur.cr.calls0
        /\ cur.cr.vol1 = cur.cr.vol0
        /\ cur.cr.size1 = cur.cr.size0
        /\ cur.cr.cache1 = cur.cr.cache0

C9_Witness == cur.op = "create" /\ Idle /\ cur.cr.done /\ CreateUnset

\* create() has returned after reading a status other than NONE (line 345).
Rejected == cur.cr.done /\ cur.cr.st \notin {"unread", NONE}

\* C10 as stated: a create() that finds a status other than NONE returns
\* False, issues no remote call and leaves the binding unchanged.
C10_RejectNoCall ==
    Rejected =>
        /\ cur.cr.r = RetBool(FALSE)
        /\ cur.cr.calls1 = cur.cr.calls0
        /\ cur.cr.vol1 = cur.cr.vol0

\* C10, amended: a create() that finds a status other than NONE returns
\* False and leaves the binding unchanged; the only remote calls it issues
\* are the describe polls of its status reads (no create-volume, snapshot
\* or tag call).
C10_RejectOnlyPolls ==
    Rejected =>
        /\ cur.cr.r = RetBool(FALSE)
        /\ cur.cr.vol1 = cur.cr.vol0
        /\ \A k \in CallKinds \ {"describe"} : cur.cr.calls1[k] = cur.cr.calls0[k]

C10_Witness ==
    /\ Rejected /\ cur.cr.vol0 # NoVol
    /\ cur.cr.calls1["describe"] > cur.cr.calls0["describe"]

\* The caller's own read of the status, or wait for one, has returned.
StatusRead == cur.op = "status" /\ cur.rd.done
WaitDone == cur.op = "wait_for_status" /\ cur.w.done

\* C11: a read of the status on an object with no bound volume returns NONE
\* and issues no remote call, whatever the cached status and its age.
C11_UnboundReadsNone ==
    (StatusRead /\ cur.vol0 = NoVol)
        => /\ ret = RetStatus(NONE)
           /\ cur.rd.v = NONE
           /\ ~cur.rd.polled
           /\ calls = NoCalls

\* The object lost its volume to a delete() and still caches a status.
C11_Witness ==
    /\ StatusRead /\ cur.vol0 = NoVol
    /\ cur.rd.cache0 # NONE
    /\ cur.rd.age0 # Never

\* C12: a read of the status whose describe call fails returns NONE, raises
\* nothing, and leaves the binding, the cached status and its age as they
\* were.
C12_FailedPollReadsNone ==
    (StatusRead /\ cur.rd.failed)
        => /\ ret = RetStatus(NONE)
           /\ cur.rd.v = NONE
           /\ cur.rd.vol1 = cur.vol0
           /\ cur.rd.cache1 = cur.rd.cache0
           /\ cur.rd.age1 = cur.rd.age0

\* The failed poll follows an answered one: a status is cached.
C12_Witness ==
    /\ StatusRead /\ cur.rd.failed
    /\ cur.vol0 # NoVol
    /\ cur.rd.cache0 # NONE

\* C13: a wait without timeout returns true only when the status it read
\* last is the target, and false only when that status is NONE or no
\* volume is bound: on any other status of a bound volume it does not
\* return.
C13_ForeverWaitReturns ==
    (WaitDone /\ cur.w.tmo = Forever)
        => IF cur.w.r THEN cur.w.v = cur.w.tgt /\ ret = RetBool(TRUE)
           ELSE (cur.w.v = NONE \/ volume = NoVol) /\ ret = RetBool(FALSE)

\* The wait met another status first, polled again and reached the target.
C13_Witness ==
    /\ WaitDone /\ cur.w.tmo = Forever
    /\ cur.w.r /\ cur.w.n >= 2

\* A wait of the caller with a finite timeout returned false after its
\* entry check had found a status.
TimedOut == WaitDone /\ cur.w.tmo # Forever /\ ~cur.w.r /\ cur.w.n > 0

\* C14 as stated: a wait with a finite timeout that does not reach the
\* target makes exactly WaitChecks status checks before it returns false.
C14_ExactlyTenChecks == TimedOut => cur.w.n = WaitChecks

\* C14: a wait with a finite timeout that does not reach the target
\* returns false after at least one and at most WaitChecks + 1 status
\* checks, the last of which did not read the target.
C14_ChecksUntilDeadline ==
    TimedOut => /\ cur.w.n \in 1..(WaitChecks + 1)
                /\ cur.w.v # cur.w.tgt
                /\ ret = RetBool(FALSE)

\* The wait made fewer checks than the budget: time ran out first.
C14_Witness == TimedOut /\ cur.w.n < WaitChecks

\* The steps of attach() up to its early returns (lines 533-540).
EarlySteps == {"entry", "e2", "e3", "e4"}

\* C15: an attach() whose first status read is NONE, DELETING, ATTACHED or
\* IN_USE issues no remote call but status polls, calls no wait, and
\* returns from lines 533-540 with the device field as it was: None on
\* NONE or DELETING, the device field on ATTACHED or IN_USE.
C15_EarlyExit ==
    (cur.op = "attach" /\ cur.ar.began /\ cur.ar.st0 # "other")
        => /\ \A c \in CallKinds \ {"describe"} : calls[c] = 0
           /\ \A i \in DOMAIN stack : stack[i].op # "wait_for_status"
           /\ IF ~Idle THEN top.pc \in EarlySteps
              ELSE /\ cur.ar.done /\ cur.ar.at \in EarlySteps
                   /\ device = cur.ar.dev0
                   /\ ret = cur.ar.r
                   /\ cur.ar.r = IF cur.ar.st0 \in {NONE, DELETING} THEN RetNone
                                 ELSE RetDev(cur.ar.dev0)

\* attach() on a volume that is attached with its device known.
C15_Witness ==
    /\ cur.op = "attach" /\ Idle
    /\ cur.ar.st0 = ATTACHED
    /\ cur.ar.r = RetDev(device) /\ device # NoDev

\* What holds of a detach() the caller makes, during and after it.
DetachSafe ==
    cur.op = "detach" =>
       /\ \A c \in CallKinds \ {"describe", "detach"} : calls[c] = 0
       /\ calls["detach"] > 0 => "attached_at_entry" \in cur.ev
       /\ calls["detach"] <= 2
       /\ calls["detach"] = 2 => cur.ev \cap {"wait1_true", "available1"} = {}
       /\ Idle =>
             /\ ret \in {RetBool(TRUE), RetBool(FALSE)}
             /\ ret = RetBool(TRUE) =>
                    /\ calls["detach"] > 0
                    /\ cur.ev \cap {"available1", "wait2_true"} # {}
             /\ "attached_at_entry" \notin cur.ev =>
                    ret = RetBool(FALSE) /\ calls["detach"] = 0

\* C16: detach() issues a remote detach only when a status read at its
\* entry is ATTACHED or IN_USE, and otherwise returns false without one;
\* it issues at most two, the second only when neither the first wait nor
\* the read after it found AVAILABLE; it returns true only when AVAILABLE
\* was read after a detach call, and false otherwise; and it returns.
C16_Detach == []DetachSafe /\ (~Idle ~> Idle)

\* The first wait ran out, the volume was detached again and came free.
C16_Witness ==
    /\ cur.op = "detach" /\ Idle
    /\ calls["detach"] = 2
    /\ ret = RetBool(TRUE)

\* C17: a delete() on an unbound object returns false without a remote
\* call; on a bound one it issues one remote delete and either returns true
\* with the volume unbound, or returns false with the volume still bound.
C17_DeleteClears ==
    (cur.op = "delete" /\ Idle)
        => IF cur.vol0 = NoVol
           THEN ret = RetBool(FALSE) /\ calls = NoCalls
           ELSE /\ calls["delete_volume"] = 1
                /\ \/ ret = RetBool(TRUE) /\ volume = NoVol
                   \/ ret = RetBool(FALSE) /\ volume = cur.vol0

\* The cloud accepted the delete and the method raised.
C17_Witness ==
    /\ cur.op = "delete" /\ Idle
    /\ cur.vol0 # NoVol /\ volume = NoVol
    /\ remote[cur.vol0].st \in {"deleting", "gone"}
    /\ ret = RetRaise("AttributeError")

\* C18: a mount() that returns true has mounted the device, at the first
\* attempt or after formatting it; a mount() whose format or second mount
\* failed returns false and neither shares the file system nor starts the
\* extraction that would share it.
C18_MountedOrFails ==
    (cur.op = "mount" /\ Idle)
        => /\ ret = RetBool(TRUE) => cur.ev \cap {"mounted", "formatted"} # {}
           /\ cur.ev \cap {"mkfs_failed", "mount2_failed"} # {}
                 => /\ ret = RetBool(FALSE)
                    /\ cur.ev \cap {"shared", "extracting"} = {}

\* The format failed, nothing is mounted, and mount() shared the mount
\* point and returned true.
C18_Witness ==
    /\ cur.op = "mount" /\ Idle
    /\ "mkfs_failed" \in cur.ev /\ "shared" \in cur.ev
    /\ ~fs.mounted /\ fs.shared
    /\ ret = RetBool(TRUE)

\* The OS mount was attempted in the public call.
MountAttempted ==
    cur.ev \cap {"mounted", "formatted", "mount2_failed", "mkfs_failed"} # {}

\* C19: mount() checks the status in at most MountTries iterations; it
\* attempts the OS mount only after a check read ATTACHED and with the
\* device field set; when no check reads ATTACHED it returns None, without
\* raising, once the iterations are used up.
C19_MountTries ==
    /\ \A i \in DOMAIN stack :
          stack[i].op = "mount" =>
             /\ stack[i].k <= MountTries
             /\ stack[i].pc # "entry" => stack[i].k < MountTries
    /\ cur.op = "mount" =>
          /\ MountAttempted => "attached" \in cur.ev /\ device # NoDev
          /\ (Idle /\ "attached" \notin cur.ev)
                => ret = RetNone /\ "exhausted" \in cur.ev

\* mount() on a bound volume that was never seen ATTACHED gave up.
C19_Witness ==
    /\ cur.op = "mount" /\ Idle
    /\ volume # NoVol
    /\ "exhausted" \in cur.ev
    /\ ret = RetNone

\* C20: an unmount() that found the file system running (or shutting down)
\* and mounted issues at most UnmountTries umount commands and none after
\* one that succeeded; it returns true when an umount succeeded and false
\* only when none did.
C20_UnmountOnce ==
    (cur.op = "unmount" /\ {"fs_up", "was_mounted"} \subseteq cur.ev)
        => /\ \A i \in DOMAIN stack :
                 stack[i].op = "unmount" => stack[i].k < UnmountTries
           /\ "umount_after_ok" \notin cur.ev
           /\ Idle => /\ ret \in {RetBool(TRUE), RetBool(FALSE)}
                       /\ "umount_ok" \in cur.ev <=> ret = RetBool(TRUE)

\* An umount succeeded, the removal of the mount point failed, the loop
\* went on and unmount() returned false with the file system unmounted.
C20_Witness ==
    /\ cur.op = "unmount" /\ Idle
    /\ {"umount_ok", "cleanup_failed", "umount_after_ok"} \subseteq cur.ev
    /\ ~fs.mounted
    /\ ret = RetBool(FALSE)

\* The history of the running call holds an unmount() that found the file
\* system in a state with nothing to unmount, or up but not mounted.
NothingToUnmount == "share_removed" \in cur.ev /\ "fs_up" \notin cur.ev
NotMounted == "fs_up" \in cur.ev /\ "was_mounted" \notin cur.ev

\* What C21 says of every unmount(), whoever calls it: an umount command
\* is issued only after the share was removed and the file system found
\* running or shutting down, and mounted.
UmountGuarded ==
    "umount" \in cur.ev => {"share_removed", "fs_up", "was_mounted"} \subseteq cur.ev

Added == cur.op = "add" /\ Idle

\* C22: after add(), a volume from a snapshot and not from an archive whose
\* file system does not serve the primary data role is static; a volume
\* from an archive is not static, whatever it was constructed with; add()
\* does not change the static flag of a volume that serves the primary
\* data role.
C22_StaticAfterAdd ==
    Added =>
        /\ (~fs.data /\ from_snapshot_id # "None" /\ ~from_archive) => static
        /\ from_archive => ~static
        /\ fs.data => static = cur.static0

\* A volume from an archive that was constructed static is static still.
C22_Witness ==
    /\ Added /\ from_archive /\ ~fs.data
    /\ cur.static0 /\ static
    /\ fs.kind = "volume"

\* attach() ended at the step that asks for the candidate devices (line
\* 557): it does so only when no candidate was found.
NoCandidate == cur.ar.done /\ cur.ar.at = "cands"

\* C23: attach() never raises; when no candidate device can be determined
\* it returns None, without a remote attach call.
C23_NoCandidateNone ==
    /\ cur.ar.done => ~Raised(cur.ar.r)
    /\ NoCandidate => cur.ar.r = RetNone /\ calls["attach"] = 0

\* attach() on an available volume, on an instance that shows no device of
\* a known naming scheme, raised TypeError.
C23_Witness ==
    /\ cur.op = "attach" /\ Idle /\ NoCandidate
    /\ TrueStatus = AVAILABLE /\ status_cache = AVAILABLE
    /\ DeviceList(osdevs, plat) = {}
    /\ calls["attach"] = 0
    /\ ret = RetRaise("TypeError")

\* _increment_device_id has computed its result for the device d.
Incremented(d) == At("_increment_device_id", "done") /\ top.ad = d
IncrementedEc2 ==
    /\ At("_increment_device_id", "done")
    /\ plat.cloud_type = "ec2" /\ top.ad.base \in {SD, XVD}

\* C24: on ec2, _increment_device_id maps /dev/sdf to /dev/sdg, /dev/xvdb
\* to /dev/sdf and /dev/xvdg to /dev/sdh; for every /dev/xvdX and /dev/sdX
\* the result is /dev/sd followed by a letter not lower than f, the
\* successor of X when X is f or higher; the object and the world are
\* left as they were.
C24_IncrementLetter ==
    /\ At("_increment_device_id", "done") =>
          /\ volume = cur.vol0 /\ device = cur.dev0 /\ static = cur.static0
          /\ calls = NoCalls
    /\ IncrementedEc2 =>
          /\ ret.t = "dev" /\ ret.d.base = SD
          /\ ret.d.id \in LetterF..LetterZ
          /\ top.ad.id >= LetterF => ret.d.id = top.ad.id + 1
          /\ top.ad = Dev(SD, LetterF) => ret.d = Dev(SD, LetterF + 1)
          /\ top.ad = Dev(XVD, 1) => ret.d = Dev(SD, LetterF)
          /\ top.ad = Dev(XVD, LetterF + 1) => ret.d = Dev(SD, LetterF + 2)

\* /dev/sdz on ec2: the result ends with the character after z, which is
\* no letter.
C24_Witness ==
    /\ IncrementedEc2 /\ Incremented(Dev(SD, LetterZ))
    /\ ret.d = Dev(SD, LetterZ + 1)

\* The wait for AVAILABLE that attach() makes before it looks for a device
\* is running: frame i is the wait, the frame under it is attach(), which
\* goes on at w1 (line 547, the snapshot branch) or at w2 (line 551).
WaitsToAttach(i) ==
    /\ i < Len(stack)
    /\ stack[i].op = "wait_for_status" /\ stack[i].tgt = AVAILABLE
    /\ stack[i + 1].op = "attach" /\ stack[i + 1].pc \in {"w1", "w2"}

\* C25: of the waits for AVAILABLE that attach() makes before it looks
\* for a device, only the one for a volume created from a snapshot has no
\* timeout; the other has one, and when it fails attach() returns None
\* without a remote attach call.
C25_OnlySnapshotWaitsForever ==
    /\ \A i \in DOMAIN stack :
          WaitsToAttach(i) =>
             IF stack[i + 1].pc = "w1"
             THEN from_snapshot_id # "None" /\ stack[i].tmo = Forever
             ELSE stack[i].tmo # Forever
    /\ (cur.ar.done /\ cur.ar.at = "w2")
          => cur.ar.r = RetNone /\ calls["attach"] = 0

\* attach() on a blank volume that is being created sleeps in a wait that
\* has no timeout.
C25_Witness ==
    /\ WaitsToAttach(1) /\ stack[2].pc = "w2"
    /\ top.pc = "sleep" /\ top.tmo = Forever
    /\ from_snapshot_id = "None"
    /\ TrueStatus = CREATING

\* C26: once a remote attach call of an attach() has failed with a zone
\* mismatch, that attach() issues no further remote attach call.
C26_ZoneMismatchFatal ==
    cur.ar.began => "attach_after_zm" \notin cur.ev

\* On an instance with /dev/sd? devices every one of the three candidates
\* was tried on a volume of another zone.
C26_Witness ==
    /\ cur.op = "attach" /\ Idle
    /\ cur.ar.zm /\ "attach_after_zm" \in cur.ev
    /\ calls["attach"] = CallCap
    /\ fs.state = "ERROR"
    /\ ret = RetNone

\* C27 as stated: whenever a candidate's attach call succeeded, no device
\* was resolved for it and the volume is not available, attach() calls
\* detach() before it tries the next candidate, whatever the candidate's
\* name.
C27_DetachUnresolved ==
    /\ "unresolved_sd" \in cur.ev => "detach_sd" \in cur.ev
    /\ "unresolved_vd" \in cur.ev => "detach_vd" \in cur.ev

\* C27, amended: attach() calls detach() for such a candidate when its
\* name is /dev/sd?, and only for such a candidate; for a candidate
\* /dev/vd? or /dev/xvd? it calls none.
C27_DetachUnresolvedSd ==
    /\ "unresolved_sd" \in cur.ev <=> "detach_sd" \in cur.ev
    /\ "detach_vd" \notin cur.ev

\* On an instance with /dev/vd? devices the volume was attached, its device
\* did not show up, and attach() returned None leaving it attached.
C27_Witness ==
    /\ cur.op = "attach" /\ Idle
    /\ "unresolved_vd" \in cur.ev
    /\ calls["attach"] > 0 /\ calls["detach"] = 0
    /\ TrueStatus = ATTACHED
    /\ ret = RetNone /\ device = NoDev

\* The method op is running, as the public call or inside it.
InStack(op) == \E i \in DOMAIN stack : stack[i].op = op

\* C28: in a remove(), unmount() is invoked before any remote detach, and
\* delete() is called only after the detach() of that remove() returned
\* true, on a volume that is not attached; in an add(), attach() is called
\* only after create() has been called and has returned, and mount() only
\* after attach() has returned a device.
C28_Order ==
    /\ cur.op = "remove" =>
          /\ (InStack("detach") \/ calls["detach"] > 0) => "share_removed" \in cur.ev
          /\ (InStack("delete") \/ calls["delete_volume"] > 0)
                => "detach_true" \in cur.ev
          /\ (At("delete", "entry") /\ volume # NoVol)
                => remote[volume].att = "none"
    /\ cur.op = "add" =>
          /\ (InStack("attach") \/ cur.ar.began) => cur.cr.done
          /\ InStack("mount") => cur.ar.done /\ cur.ar.r.t = "dev"

\* A remove() of a mounted, attached volume unmounted it, detached it and
\* asked the cloud to delete it.
C28_Witness ==
    /\ cur.op = "remove" /\ Idle
    /\ "umount_ok" \in cur.ev
    /\ cur.att0 = "attached"
    /\ calls["detach"] > 0 /\ calls["delete_volume"] > 0

\* C29: a mount() that returned true ran the sharing callback at once and
\* once, and started no extraction, when the volume is not from an archive
\* or the archive's content is already there; otherwise it started the
\* extraction with the file system CONFIGURING and without the callback,
\* which runs once, when the extraction completes, and not while it lasts.
C29_ShareOnce ==
    cur.op \in {"mount", "add"} =>
        /\ cur.sh <= 1
        /\ "shared" \in cur.ev
              => cur.sh = 1 /\ cur.ev \cap {"extracting", "extracted"} = {}
        /\ "extracting" \in cur.ev
              => /\ from_archive
                 /\ IF fs.extracting
                    THEN cur.sh = 0 /\ "extracted" \notin cur.ev
                    ELSE cur.sh = 1 /\ "extracted" \in cur.ev
                 /\ (fs.extracting /\ ~Idle) => fs.state = "CONFIGURING"
        /\ (ret = RetBool(TRUE) /\ Idle /\ cur.op = "mount")
              => cur.ev \cap {"shared", "extracting"} # {}

\* An add() mounted a volume made from an archive and started the
\* extraction; the extraction has completed and the callback has run.
C29_Witness ==
    /\ cur.op = "add" /\ Idle
    /\ {"extracting", "extracted"} \subseteq cur.ev
    /\ cur.sh = 1 /\ fs.shared /\ fs.state = "RUNNING"

\* A read of the status of a bound volume: served from the cache, without
\* a describe call, when serve holds, and otherwise by exactly one describe
\* call whose answer, if it comes, becomes the cached status, of age 0.
Throttled(serve) ==
    IF serve
    THEN /\ ~cur.rd.polled
         /\ calls = NoCalls
         /\ cur.rd.v = cur.rd.cache0
         /\ cur.rd.cache1 = cur.rd.cache0 /\ cur.rd.age1 = cur.rd.age0
    ELSE /\ cur.rd.polled
         /\ calls = Bump(NoCalls, "describe")
         /\ ~cur.rd.failed => /\ cur.rd.cache1 = cur.rd.v
                               /\ cur.rd.age1 = 0

\* C30 as stated: the cache serves a read made less than
\* MIN_TIME_BETWEEN_STATUS_CHECKS seconds after the last successful poll,
\* and a read made that long or longer after it, or with no such poll,
\* makes one describe call.
C30_ThrottleBelow ==
    (StatusRead /\ cur.vol0 # NoVol)
        => Throttled(cur.rd.age0 # Never
                     /\ cur.rd.age0 < MIN_TIME_BETWEEN_STATUS_CHECKS)

\* C30: the cache serves a read of a bound volume's status made at most
\* MIN_TIME_BETWEEN_STATUS_CHECKS seconds after the last successful poll,
\* without a describe call; a read made later, or with no such poll, makes
\* exactly one describe call and, when it is answered, caches the answer
\* and restarts the interval.
C30_ThrottleUpTo ==
    (StatusRead /\ cur.vol0 # NoVol)
        => Throttled(cur.rd.age0 # Never
                     /\ cur.rd.age0 <= MIN_TIME_BETWEEN_STATUS_CHECKS)

\* A read made exactly MIN_TIME_BETWEEN_STATUS_CHECKS seconds after the
\* last successful poll was served from the cache, which no longer says
\* what the cloud would have answered.
C30_Witness ==
    /\ StatusRead /\ cur.vol0 # NoVol
    /\ cur.rd.age0 = MIN_TIME_BETWEEN_STATUS_CHECKS
    /\ ~cur.rd.polled
    /\ Exists(remote[cur.vol0])
    /\ cur.rd.v # MapStatus(remote[cur.vol0])

\* C31: a create() entered with a volume bound makes no remote create call
\* and returns with the same volume bound.
C31_CreateKeepsBound ==
    (cur.cr.began /\ cur.cr.vol0 # NoVol)
        => /\ ~At("create", "make")
           /\ cur.cr.done
                 => /\ cur.cr.vol1 = cur.cr.vol0
                    /\ cur.cr.calls1["create_volume"] = cur.cr.calls0["create_volume"]

\* A create() entered with a volume bound that still exists in the cloud
\* read the status NONE from a failed poll, created another volume and
\* bound it in place of the first.
C31_Witness ==
    /\ cur.cr.done /\ cur.cr.vol0 # NoVol
    /\ cur.cr.st = NONE
    /\ cur.cr.vol1 \notin {NoVol, cur.cr.vol0}
    /\ Exists(remote[cur.cr.vol0])

\* C32: while the file system is still mounted, a remove() makes no
\* remote detach call and no remote delete call.
C32_DetachOnlyUnmounted ==
    (cur.op = "remove" /\ fs.mounted)
        => calls["detach"] = 0 /\ calls["delete_volume"] = 0

\* A remove() gave up unmounting a mounted file system after its tries,
\* detached the volume and asked the cloud to delete it, the file system
\* still mounted.
C32_Witness ==
    /\ cur.op = "remove" /\ Idle
    /\ {"was_mounted", "fs_up", "umount"} \subseteq cur.ev
    /\ fs.mounted
    /\ calls["detach"] > 0 /\ calls["delete_volume"] > 0

\* C33: attach() makes a remote attach call only when the last status it
\* observed is AVAILABLE: the status last polled is AVAILABLE whenever
\* the call is about to be made, and no call was made otherwise.
C33_AttachOnlyAvailable ==
    /\ At("attach", "do") => status_cache = AVAILABLE
    /\ "attach_unavailable" \notin cur.ev

\* An attach() whose attach call for one candidate succeeded without a
\* device appearing made the attach call for the next candidate with the
\* volume last seen in another status than AVAILABLE.
C33_Witness ==
    /\ cur.ar.done
    /\ "attach_unavailable" \in cur.ev
    /\ calls["attach"] >= 2

====
